---- MODULE Spec2Model ----
(***************************************************************************)
(* Model of the job orchestration core of main.py: generate_site,          *)
(* build_site_and_notify and _kill_process_group, together with the part   *)
(* of the operating system they act on (the process group of create.sh,    *)
(* its pipes, the wall clock and the callback endpoint); of the build log  *)
(* reader get_build_log; and of the pure functions they use (_site_slug,   *)
(* the payload builders).                                                  *)
(***************************************************************************)
EXTENDS Integers, Sequences, FiniteSets, TLC

\* ------------------------------------------------------------------------
\* Bounds and program constants
\* ------------------------------------------------------------------------
MaxJobs == 1            \* number of build requests that are submitted

BUILD_TIMEOUT == 900    \* main.py:40, seconds

TickSeconds == 450      \* granularity with which the wall clock is observed

Jobs == 1 .. MaxJobs

ExitCodes == {0, 1}     \* exit status of create.sh: 0 success, non-zero failure

SIGKILLED == 0 - 9      \* returncode of a child that was killed by SIGKILL

VARIABLES
    scriptState,   \* ./create.sh on disk: "missing", "noexec" or "ok"
    pc,            \* per job: position of the request / background task
    http,          \* per job: status code of the answer of POST /generate-site
    proc,          \* per job: the process group spawned for the job
    elapsed,       \* per job: seconds spent so far inside wait_for(...)
    outcomes,      \* per job: the payloads built so far, in order
    posts,         \* per job: the POSTs attempted so far on webhook_url
    kills,         \* per job: the calls of _kill_process_group so far
    requests,      \* per job: business_name of the request the client sends
    REMOTE_SITE_URL, \* main.py:28, a string, empty when not configured
    ack,           \* per job: body of the answer of POST /generate-site
    env,           \* os.environ: GEMINI_API_KEY and OPENROUTER_API_KEY
    startup,       \* whether validate_environment has run, and its errors
    pidReuse,      \* whether the kernel hands out again the pid of a reaped
                   \* process while the server runs (pid counter wrapped)
    fnIn,          \* input of the pure function under evaluation
    fnOut,         \* its result
    logFile,       \* sites/<slug>/build.log: absent, or its content
    snaps,         \* the answers of GET /build-log/<slug> so far (last two)
    waiter         \* step_wait_local of the test harness tailing build.log

orchVars == <<scriptState, pc, http, proc, elapsed, outcomes, posts, kills>>

reqVars == <<requests, REMOTE_SITE_URL, ack, env, startup, pidReuse>>

fnVars == <<fnIn, fnOut>>

logVars == <<logFile, snaps, waiter>>

vars == <<orchVars, reqVars, fnVars, logVars>>

\* A process group: its leader (the child create.sh), the leader's return
\* code, the seconds of waiting after which the leader exited on its own
\* (NotExited if it did not), one descendant of depth >= 2 and whether the
\* descendant holds the write ends of the stdout/stderr pipes; pid is
\* process.pid, which is also the id of the group (start_new_session)
NotExited == 0 - 1

NoProcess ==
    [leader |-> "none", rc |-> 0, exitAt |-> NotExited,
     desc |-> "none", descPipe |-> FALSE, pid |-> 0]

GroupAlive(p) == p.leader = "alive" \/ p.desc = "alive"

Last(s) == s[Len(s)]

Min(a, b) == IF a < b THEN a ELSE b

\* ------------------------------------------------------------------------
\* Payloads (main.py:158-162, 170-174, 178, 189)
\* ------------------------------------------------------------------------
SuccessPayload == [status |-> "success", kind |-> "Success", error |-> "none"]

FailurePayload == [status |-> "error", kind |-> "Failure", error |-> "stderr"]

TimeoutPayload == [status |-> "timeout", kind |-> "Timeout", error |-> "exceeded"]

ErrorPayload(exc) == [status |-> "error", kind |-> "InternalError", error |-> exc]

\* ------------------------------------------------------------------------
\* _kill_process_group (main.py:109-123), as a function of the process
\* group and of what the operating system answers to the call:
\*   "ESRCH"       os.getpgid raises ProcessLookupError, the pid is gone
\*   "OK"          os.killpg delivers SIGKILL to every member of the group
\*   "EPERM"       os.killpg raises another error; process.kill() works
\*   "EPERM_TWICE" os.killpg raises another error; process.kill() raises
\* and, when process.pid was given to another process after the child
\* was reaped,
\*   "REUSED"      the pid is now the create.sh of another job: os.getpgid
\*                 returns that job's group and os.killpg kills it
\*   "STRANGER"    the pid is now an unrelated process: os.getpgid returns
\*                 its group and os.killpg signals it
\* The result names the group after the call, the branch that was taken,
\* whether the warning was printed and whether an exception left the call.
\* ------------------------------------------------------------------------
OsAnswers(p) ==
    IF p.leader = "reaped" THEN {"ESRCH"} ELSE {"OK", "EPERM", "EPERM_TWICE"}

\* the other jobs whose living create.sh has the pid this job's process had
Owners(j, p) ==
    {k \in DOMAIN proc \ {j} : proc[k].leader = "alive" /\ proc[k].pid = p.pid}

\* What the operating system answers to job j.  The pid of a reaped child
\* is free for reuse once no process of its group is left; until then
\* os.getpgid(pid) finds no such process.
OsAnswersFor(j, p) ==
    IF pidReuse /\ p.leader = "reaped" /\ ~GroupAlive(p)
    THEN IF Owners(j, p) # {} THEN {"REUSED"} ELSE {"ESRCH", "STRANGER"}
    ELSE OsAnswers(p)

KillGroup(p) ==
    [p EXCEPT !.leader = "reaped", !.rc = SIGKILLED,
              !.desc = IF @ = "alive" THEN "dead" ELSE @, !.descPipe = FALSE]

KillChild(p) == [p EXCEPT !.leader = "reaped", !.rc = SIGKILLED]

KillResult(p, branch, warned, raised) ==
    [proc |-> p, branch |-> branch, warned |-> warned, raised |-> raised]

\* Variant: the "except ProcessLookupError: pass" clause is missing, so a
\* vanished pid is handled by the generic clause (warning and fallback;
\* process.kill() on the exited child raises and is swallowed)
kill_process_group_NoLookupClause(p, os) ==
    CASE os = "ESRCH" -> KillResult(p, "fallback_failed", TRUE, FALSE)
      [] os = "OK" -> KillResult(KillGroup(p), "killed", FALSE, FALSE)
      [] os = "EPERM" -> KillResult(KillChild(p), "fallback", TRUE, FALSE)
      [] os = "EPERM_TWICE" -> KillResult(p, "fallback_failed", TRUE, FALSE)
      [] os \in {"REUSED", "STRANGER"} -> KillResult(p, "killed", FALSE, FALSE)

\* Variant: the fallback process.kill() is not wrapped in try/except
kill_process_group_BareFallback(p, os) ==
    CASE os = "ESRCH" -> KillResult(p, "nosuch", FALSE, FALSE)
      [] os = "OK" -> KillResult(KillGroup(p), "killed", FALSE, FALSE)
      [] os = "EPERM" -> KillResult(KillChild(p), "fallback", TRUE, FALSE)
      [] os = "EPERM_TWICE" -> KillResult(p, "fallback_failed", TRUE, TRUE)
      [] os \in {"REUSED", "STRANGER"} -> KillResult(p, "killed", FALSE, FALSE)

kill_process_group(p, os) ==
    CASE os = "ESRCH" -> KillResult(p, "nosuch", FALSE, FALSE)
      [] os = "OK" -> KillResult(KillGroup(p), "killed", FALSE, FALSE)
      [] os = "EPERM" -> KillResult(KillChild(p), "fallback", TRUE, FALSE)
      [] os = "EPERM_TWICE" -> KillResult(p, "fallback_failed", TRUE, FALSE)
      [] os \in {"REUSED", "STRANGER"} -> KillResult(p, "killed", FALSE, FALSE)

\* One entry of kills: what the operating system answered, the branch
\* taken, whether the warning was printed and whether the call raised
KillEntry(os, r) ==
    [os |-> os, branch |-> r.branch, warned |-> r.warned, raised |-> r.raised]

\* The process groups after job j's call: its own as the call left it,
\* and the group of the job that now owns the pid killed with it
ProcAfterKill(j, p, os, r) ==
    [k \in DOMAIN proc |->
        IF k = j THEN r.proc
        ELSE IF os = "REUSED" /\ k \in Owners(j, p) THEN KillGroup(proc[k])
        ELSE proc[k]]

\* ------------------------------------------------------------------------
\* The except block of build_site_and_notify up to its POST
\* (main.py:184-188): kill the group if a process was created, build the
\* error payload.  If the kill raised, the exception leaves the task.
\* ------------------------------------------------------------------------
ExceptHandler(j, p, ks, exc) ==
    IF p.leader = "none"
    THEN /\ proc' = [proc EXCEPT ![j] = p]
         /\ kills' = [kills EXCEPT ![j] = ks]
         /\ pc' = [pc EXCEPT ![j] = "notify"]
         /\ outcomes' = [outcomes EXCEPT ![j] = Append(@, ErrorPayload(exc))]
    ELSE \E os \in OsAnswersFor(j, p) :
            LET r == kill_process_group(p, os)
            IN  /\ proc' = ProcAfterKill(j, p, os, r)
                /\ kills' = [kills EXCEPT ![j] = Append(ks, KillEntry(os, r))]
                /\ IF r.raised
                   THEN /\ pc' = [pc EXCEPT ![j] = "escaped"]
                        /\ outcomes' = outcomes
                   ELSE /\ pc' = [pc EXCEPT ![j] = "notify"]
                        /\ outcomes' = [outcomes EXCEPT ![j] =
                                           Append(@, ErrorPayload(exc))]

\* ------------------------------------------------------------------------
\* Strings are sequences of characters.  str.lower(), str.replace(" ", "-")
\* and re.sub(r"[^a-z0-9-]", "", s) as _site_slug applies them
\* (main.py:125-129)
\* ------------------------------------------------------------------------
UpperLetters ==
    <<"A", "B", "C", "D", "E", "F", "G", "H", "I", "J", "K", "L", "M",
      "N", "O", "P", "Q", "R", "S", "T", "U", "V", "W", "X", "Y", "Z">>

LowerLetters ==
    <<"a", "b", "c", "d", "e", "f", "g", "h", "i", "j", "k", "l", "m",
      "n", "o", "p", "q", "r", "s", "t", "u", "v", "w", "x", "y", "z">>

Digits == {"0", "1", "2", "3", "4", "5", "6", "7", "8", "9"}

Range(f) == {f[i] : i \in DOMAIN f}

\* the character class [a-z0-9-]
SlugChars == Range(LowerLetters) \cup Digits \cup {"-"}

lower_char(c) ==
    IF c \in Range(UpperLetters)
    THEN LowerLetters[CHOOSE i \in DOMAIN UpperLetters : UpperLetters[i] = c]
    ELSE c

lower(s) == [i \in 1 .. Len(s) |-> lower_char(s[i])]

replace_space(s) == [i \in 1 .. Len(s) |-> IF s[i] = " " THEN "-" ELSE s[i]]

KeepSlugChar(c) == c \in SlugChars

\* Variant: the name is not lower-cased first
site_slug_NoLower(name) == SelectSeq(replace_space(name), KeepSlugChar)

\* Variant: the characters outside [a-z0-9-] are not removed
site_slug_NoFilter(name) == replace_space(lower(name))

site_slug(name) == SelectSeq(replace_space(lower(name)), KeepSlugChar)

\* slug of the test harness (tests/test-all.py:245-249)
slug(name) == SelectSeq(replace_space(lower(name)), KeepSlugChar)

\* f"{REMOTE_SITE_URL}/{site_slug}/index.html" (main.py:172, 206)
SiteUrl(remote, s) == remote \o <<"/">> \o s \o <<"/index.html">>

\* a response that adds site_url whether or not a base URL is configured
generate_site_response_AlwaysUrl(name, remote) ==
    [status |-> "processing", message |-> "Job added to queue.",
     site_slug |-> site_slug(name),
     site_url |-> SiteUrl(remote, site_slug(name))]

\* a response that announces the name with its spaces replaced only
generate_site_response_RawName(name, remote) ==
    IF remote # <<>>
    THEN [status |-> "processing", message |-> "Job added to queue.",
          site_slug |-> replace_space(name),
          site_url |-> SiteUrl(remote, replace_space(name))]
    ELSE [status |-> "processing", message |-> "Job added to queue.",
          site_slug |-> replace_space(name)]

\* the body generate_site returns for an accepted request (main.py:199-208)
generate_site_response(name, remote) ==
    IF remote # <<>>
    THEN [status |-> "processing", message |-> "Job added to queue.",
          site_slug |-> site_slug(name),
          site_url |-> SiteUrl(remote, site_slug(name))]
    ELSE [status |-> "processing", message |-> "Job added to queue.",
          site_slug |-> site_slug(name)]

\* the body of the HTTPException of main.py:194
NotFoundOnServer == [detail |-> "create.sh not found on server"]

NoAck == [status |-> "none"]

\* business name of the requests (one name with an upper-case letter, a
\* stripped character, a space and a digit; FnSpec goes through all names),
\* and the values of REMOTE_SITE_URL
RequestNames == {<<"L", "'", " ", "3">>}

RemoteUrls == {<<>>, <<"http://h">>}

\* ------------------------------------------------------------------------
\* The payloads build_site_and_notify builds, field by field
\* (main.py:158-162, 170-174, 177-180)
\* ------------------------------------------------------------------------
\* stderr.decode(errors="replace"): an undecodable byte ("xFF") becomes the
\* replacement character ("uFFFD")
decode_replace(bytes) ==
    [i \in 1 .. Len(bytes) |-> IF bytes[i] = "xFF" THEN "uFFFD" ELSE bytes[i]]

\* str.strip(): leading and trailing whitespace removed ("LF" is a newline)
Whitespace == {" ", "LF"}

RECURSIVE lstrip(_)
lstrip(s) == IF s # <<>> /\ Head(s) \in Whitespace THEN lstrip(Tail(s)) ELSE s

RECURSIVE rstrip(_)
rstrip(s) ==
    IF s # <<>> /\ s[Len(s)] \in Whitespace
    THEN rstrip(SubSeq(s, 1, Len(s) - 1))
    ELSE s

strip(s) == rstrip(lstrip(s))

\* a success payload that always carries site_url
success_payload_AlwaysUrl(name, remote) ==
    [status |-> "success", business_name |-> name,
     site_url |-> SiteUrl(remote, site_slug(name))]

\* main.py:169-174
success_payload(name, remote) ==
    IF remote # <<>>
    THEN [status |-> "success", business_name |-> name,
          site_url |-> SiteUrl(remote, site_slug(name))]
    ELSE [status |-> "success", business_name |-> name,
          site_slug |-> site_slug(name)]

\* main.py:176-180: neither the name nor process.returncode is put in
failure_payload(name, stderr, returncode) ==
    [status |-> "error", error |-> strip(decode_replace(stderr))]

\* main.py:158-162: BUILD_TIMEOUT // 60 inside the message
timeout_payload(name, limit) ==
    [status |-> "timeout", business_name |-> name,
     error |-> <<"Build exceeded ", limit \div 60,
                 "-minute timeout and was killed.">>]

\* ------------------------------------------------------------------------
\* _parse_build_stats (main.py:215-249).  For the eight patterns a log is
\* the sequence of its items: a label ("Total:", "Mode:", ..., or "text"
\* for anything else), white space, and the characters that follow up to
\* the next item.  re.search takes the first place where label, white
\* space and value all match.
\* ------------------------------------------------------------------------
RECURSIVE TakeWhile(_, _)
TakeWhile(s, S) ==
    IF s # <<>> /\ Head(s) \in S
    THEN <<Head(s)>> \o TakeWhile(Tail(s), S)
    ELSE <<>>

Drop(s, n) == SubSeq(s, n + 1, Len(s))

\* the characters of the values
ValueChars ==
    Digits \cup {".", "m", "s", "w", "x", "M", "/", "(", ")", "~", "$", " ",
                 "http://", "ftp://"}

\* \w and \S restricted to ValueChars ("http://" stands for those seven
\* characters, it is never matched by \d or \w alone)
WordChars == Digits \cup {"m", "s", "w", "x", "M"}

NonSpace == ValueChars \ {" "}

NoMatch == [ok |-> FALSE, groups |-> <<>>]

Match(groups) == [ok |-> TRUE, groups |-> groups]

\* ([\d]+m\s+[\d]+s)
match_total_time(v) ==
    LET d1 == TakeWhile(v, Digits)
        r1 == Drop(v, Len(d1))
        ws == IF r1 = <<>> THEN <<>> ELSE TakeWhile(Tail(r1), {" "})
        r2 == Drop(r1, 1 + Len(ws))
        d2 == TakeWhile(r2, Digits)
        r3 == Drop(r2, Len(d2))
    IN  IF /\ d1 # <<>> /\ r1 # <<>> /\ Head(r1) = "m" /\ ws # <<>>
           /\ d2 # <<>> /\ r3 # <<>> /\ Head(r3) = "s"
        THEN Match(<<d1 \o <<"m">> \o ws \o d2 \o <<"s">>>>)
        ELSE NoMatch

\* (\w+)\s+\(([^)]+)\)
match_mode(v) ==
    LET w  == TakeWhile(v, WordChars)
        r1 == Drop(v, Len(w))
        ws == TakeWhile(r1, {" "})
        r2 == Drop(r1, Len(ws))
        inner == IF r2 = <<>> THEN <<>>
                 ELSE TakeWhile(Tail(r2), ValueChars \ {")"})
        r3 == Drop(r2, 1 + Len(inner))
    IN  IF /\ w # <<>> /\ ws # <<>> /\ r2 # <<>> /\ Head(r2) = "("
           /\ inner # <<>> /\ r3 # <<>> /\ Head(r3) = ")"
        THEN Match(<<w, inner>>)
        ELSE NoMatch

\* (\d+)\s*/\s*(\d+)
match_generated(v) ==
    LET d1 == TakeWhile(v, Digits)
        r1 == Drop(v, Len(d1))
        r2 == Drop(r1, Len(TakeWhile(r1, {" "})))
        r3 == IF r2 = <<>> THEN <<>> ELSE Drop(r2, 1 + Len(TakeWhile(Tail(r2), {" "})))
        d2 == TakeWhile(r3, Digits)
    IN  IF d1 # <<>> /\ r2 # <<>> /\ Head(r2) = "/" /\ d2 # <<>>
        THEN Match(<<d1, d2>>)
        ELSE NoMatch

\* (\d+)
match_failed(v) ==
    LET d == TakeWhile(v, Digits)
    IN  IF d # <<>> THEN Match(<<d>>) ELSE NoMatch

\* ~?\$?([\d.]+)
match_cost(v) ==
    LET r1 == IF v # <<>> /\ Head(v) = "~" THEN Tail(v) ELSE v
        r2 == IF r1 # <<>> /\ Head(r1) = "$" THEN Tail(r1) ELSE r1
        g  == TakeWhile(r2, Digits \cup {"."})
    IN  IF g # <<>> THEN Match(<<g>>) ELSE NoMatch

\* (\S+)
match_size(v) ==
    LET g == TakeWhile(v, NonSpace)
    IN  IF g # <<>> THEN Match(<<g>>) ELSE NoMatch

\* (https?://\S+)
match_url(v) ==
    LET g == IF v = <<>> THEN <<>> ELSE TakeWhile(Tail(v), NonSpace)
    IN  IF v # <<>> /\ Head(v) = "http://" /\ g # <<>>
        THEN Match(<<<<"http://">> \o g>>)
        ELSE NoMatch

\* the value part of the pattern that starts with the label
match_value(label, v) ==
    CASE label = "Total time:" -> match_total_time(v)
      [] label = "Mode:" -> match_mode(v)
      [] label = "Generated:" -> match_generated(v)
      [] label = "Failed:" -> match_failed(v)
      [] label = "Total:" -> match_cost(v)
      [] label \in {"Assets size:", "Total size:"} -> match_size(v)
      [] label = "Open:" -> match_url(v)
      [] OTHER -> NoMatch

\* re.search(pattern, log_text): the first match, or None
RECURSIVE re_search(_, _)
re_search(label, log) ==
    IF log = <<>> THEN NoMatch
    ELSE IF Head(log).label = label /\ match_value(label, Head(log).value).ok
         THEN match_value(label, Head(log).value)
         ELSE re_search(label, Tail(log))

\* int(): the value of a string of decimal digits
DigitValue(c) == CHOOSE n \in 0 .. 9 : <<"0", "1", "2", "3", "4", "5", "6", "7", "8", "9">>[n + 1] = c

RECURSIVE int(_)
int(d) == IF d = <<>> THEN 0 ELSE 10 * int(SubSeq(d, 1, Len(d) - 1)) + DigitValue(d[Len(d)])

\* float() of a string of digits and dots: it is a number when it has at
\* least one digit and at most one dot, otherwise float raises ValueError
IsFloatLiteral(g) ==
    /\ \E i \in 1 .. Len(g) : g[i] \in Digits
    /\ Cardinality({i \in 1 .. Len(g) : g[i] = "."}) <= 1

RECURSIVE DropTrailingZeros(_)
DropTrailingZeros(d) ==
    IF d # <<>> /\ d[Len(d)] = "0"
    THEN DropTrailingZeros(SubSeq(d, 1, Len(d) - 1))
    ELSE d

\* the number as its integer part and the digits of its fraction
float(g) ==
    LET whole == TakeWhile(g, Digits)
        frac  == IF Len(whole) < Len(g) THEN Drop(g, Len(whole) + 1) ELSE <<>>
    IN  [int |-> int(whole), frac |-> DropTrailingZeros(frac)]

\* one key of the dict, or nothing
Entry(m, key, val) == IF m.ok THEN key :> val ELSE <<>>

Returned(stats) == [raised |-> FALSE, stats |-> stats]

Raised(exc) == [raised |-> TRUE, exc |-> exc]

\* main.py:215-249
parse_build_stats(log_text) ==
    LET time   == re_search("Total time:", log_text)
        mode   == re_search("Mode:", log_text)
        gen    == re_search("Generated:", log_text)
        failed == re_search("Failed:", log_text)
        cost   == re_search("Total:", log_text)
        assets == re_search("Assets size:", log_text)
        total  == re_search("Total size:", log_text)
        url    == re_search("Open:", log_text)
    IN  IF cost.ok /\ ~IsFloatLiteral(cost.groups[1])
        THEN Raised("ValueError")
        ELSE Returned(
               Entry(time, "total_time", strip(time.groups[1]))
            @@ Entry(mode, "mode",
                     mode.groups[1] \o <<" ", "(">> \o strip(mode.groups[2]) \o <<")">>)
            @@ Entry(gen, "images_generated", int(gen.groups[1]))
            @@ Entry(gen, "images_total", int(gen.groups[2]))
            @@ Entry(failed, "images_failed", int(failed.groups[1]))
            @@ Entry(cost, "estimated_cost_usd", float(cost.groups[1]))
            @@ Entry(assets, "assets_size", strip(assets.groups[1]))
            @@ Entry(total, "total_size", strip(total.groups[1]))
            @@ Entry(url, "site_url", strip(url.groups[1])))

\* ------------------------------------------------------------------------
\* Initial state: the server is up, no request has been made
\* ------------------------------------------------------------------------
\* no request made, no task running
\* ------------------------------------------------------------------------
\* validate_environment (main.py:49-82): the list of errors it collects
\* ------------------------------------------------------------------------
has_key(value) == strip(value) # <<>>

startup_errors(script, e) ==
    (IF script = "missing"
     THEN <<"create.sh not found in working directory">>
     ELSE IF script = "noexec"
          THEN <<"create.sh exists but is not executable">>
          ELSE <<>>)
    \o (IF ~has_key(e.GEMINI_API_KEY) /\ ~has_key(e.OPENROUTER_API_KEY)
        THEN <<"Neither GEMINI_API_KEY nor OPENROUTER_API_KEY is set">>
        ELSE <<>>)

\* the server is up: the startup handler has run and requests are served
Started ==
    startup = [done |-> TRUE, errors |-> startup_errors(scriptState, env)]

\* a deployment with one API key
ServerEnv == [GEMINI_API_KEY |-> <<"k">>, OPENROUTER_API_KEY |-> <<>>]

OrchIdle ==
    /\ pc = [j \in Jobs |-> "idle"]
    /\ http = [j \in Jobs |-> 0]
    /\ proc = [j \in Jobs |-> NoProcess]
    /\ elapsed = [j \in Jobs |-> 0]
    /\ outcomes = [j \in Jobs |-> <<>>]
    /\ posts = [j \in Jobs |-> <<>>]
    /\ kills = [j \in Jobs |-> <<>>]
    /\ ack = [j \in Jobs |-> NoAck]
    /\ pidReuse = FALSE
    /\ env = ServerEnv
    /\ Started

\* no pure function under evaluation; a result slot holds zero or one value
\* a run of image.py that has not started: the providers called so far
\* with their results, and the exit status of the program
NoRun == [pc |-> "start", calls |-> <<>>, status |-> "running"]

NoFnOut ==
    [server |-> <<>>, harness |-> <<>>, payload |-> <<>>, stats |-> <<>>,
     response |-> <<>>, log_path |-> <<>>, run |-> NoRun, scrape |-> <<>>,
     config |-> <<>>]

FnIdle == fnIn = [fn |-> "none"] /\ fnOut = NoFnOut

\* no build log, no query yet
NotWritten == 0 - 1

\* the harness is not tailing
NoWaiter ==
    [pc |-> "off", now |-> 0, last_pos |-> 0, done |-> FALSE,
     markerAt |-> NotWritten]

LogIdle ==
    /\ logFile = [exists |-> FALSE, text |-> <<>>]
    /\ snaps = <<>>
    /\ waiter = NoWaiter

Init ==
    /\ scriptState \in {"missing", "noexec", "ok"}
    /\ requests \in [Jobs -> RequestNames]
    /\ REMOTE_SITE_URL \in RemoteUrls
    /\ OrchIdle
    /\ FnIdle
    /\ LogIdle

\* ------------------------------------------------------------------------
\* POST /generate-site (main.py:191-208)
\* ------------------------------------------------------------------------
generate_site(j) ==
    /\ startup.done
    /\ pc[j] = "idle"
    /\ IF scriptState = "missing"
       THEN /\ pc' = [pc EXCEPT ![j] = "rejected"]
            /\ http' = [http EXCEPT ![j] = 500]
            /\ ack' = [ack EXCEPT ![j] = NotFoundOnServer]
       ELSE /\ pc' = [pc EXCEPT ![j] = "accepted"]
            /\ http' = [http EXCEPT ![j] = 200]
            /\ ack' = [ack EXCEPT ![j] =
                          generate_site_response(requests[j], REMOTE_SITE_URL)]
    /\ UNCHANGED <<scriptState, proc, elapsed, outcomes, posts, kills>>
    /\ UNCHANGED <<requests, REMOTE_SITE_URL, env, startup, pidReuse>>
    /\ UNCHANGED <<fnVars, logVars>>

\* ------------------------------------------------------------------------
\* build_site_and_notify (main.py:132-189), one action per stretch of code
\* between two awaits
\* ------------------------------------------------------------------------
\* main.py:133-141: the task starts and calls create_subprocess_exec
StartTask(j) ==
    /\ pc[j] = "accepted"
    /\ pc' = [pc EXCEPT ![j] = "spawning"]
    /\ UNCHANGED <<scriptState, http, proc, elapsed, outcomes, posts, kills>>
    /\ UNCHANGED <<reqVars, fnVars, logVars>>

\* The pids the kernel may give to a new child of job j: one never used
\* before, or, when pids are reused, one whose process was reaped and
\* whose group is empty
NewPids(j) ==
    {j} \cup {proc[k].pid : k \in {k \in DOMAIN proc \ {j} :
                                     /\ pidReuse
                                     /\ proc[k].leader = "reaped"
                                     /\ ~GroupAlive(proc[k])
                                     /\ Owners(k, proc[k]) = {}}}

\* Variant: a build is started only while no other build is running
SpawnOk_Serialized(j) ==
    /\ pc[j] = "spawning"
    /\ scriptState = "ok"
    /\ \A k \in DOMAIN proc \ {j} : ~GroupAlive(proc[k])
    /\ \E pid \in NewPids(j) :
          proc' = [proc EXCEPT ![j] =
                      [NoProcess EXCEPT !.leader = "alive", !.pid = pid]]
    /\ pc' = [pc EXCEPT ![j] = "waiting"]
    /\ UNCHANGED <<scriptState, http, elapsed, outcomes, posts, kills>>
    /\ UNCHANGED <<reqVars, fnVars, logVars>>

\* main.py:141-150: create_subprocess_exec returns a process, the task
\* starts waiting for communicate() under the timeout
SpawnOk(j) ==
    /\ pc[j] = "spawning"
    /\ scriptState = "ok"
    /\ \E pid \in NewPids(j) :
          proc' = [proc EXCEPT ![j] =
                      [NoProcess EXCEPT !.leader = "alive", !.pid = pid]]
    /\ pc' = [pc EXCEPT ![j] = "waiting"]
    /\ UNCHANGED <<scriptState, http, elapsed, outcomes, posts, kills>>
    /\ UNCHANGED <<reqVars, fnVars, logVars>>

\* main.py:141-146, 184-188: create_subprocess_exec raises (not executable,
\* removed meanwhile, fork failure); process is still None
SpawnFail(j) ==
    /\ pc[j] = "spawning"
    /\ ExceptHandler(j, proc[j], kills[j], "spawn")
    /\ UNCHANGED <<scriptState, http, elapsed, posts>>
    /\ UNCHANGED <<reqVars, fnVars, logVars>>

\* wait_for(..., timeout=BUILD_TIMEOUT) (main.py:150-153): the deadline of
\* the wait has been reached
\* Variant: the timer is armed one tick short of BUILD_TIMEOUT
DeadlineReached_Short(j) == elapsed[j] >= BUILD_TIMEOUT - TickSeconds

\* Variant: communicate() is awaited without wait_for, there is no deadline
DeadlineReached_Never(j) == FALSE

DeadlineReached(j) == elapsed[j] >= BUILD_TIMEOUT

\* communicate() is complete once the child has exited and both pipes are
\* at end of file, that is no living process holds their write ends
CommReady(j) ==
    /\ proc[j].leader = "reaped"
    /\ ~(proc[j].desc = "alive" /\ proc[j].descPipe)

\* Variant: the test of the return code is inverted
Complete_InvertedCode(j) ==
    /\ pc[j] = "waiting"
    /\ ~DeadlineReached(j)
    /\ CommReady(j)
    /\ outcomes' = [outcomes EXCEPT ![j] =
            Append(@, IF proc[j].rc # 0 THEN SuccessPayload ELSE FailurePayload)]
    /\ pc' = [pc EXCEPT ![j] = "notify"]
    /\ UNCHANGED <<scriptState, http, proc, elapsed, posts, kills>>
    /\ UNCHANGED <<reqVars, fnVars, logVars>>

\* main.py:150-153, 167-181: communicate() returned before the deadline
Complete(j) ==
    /\ pc[j] = "waiting"
    /\ ~DeadlineReached(j)
    /\ CommReady(j)
    /\ outcomes' = [outcomes EXCEPT ![j] =
            Append(@, IF proc[j].rc = 0 THEN SuccessPayload ELSE FailurePayload)]
    /\ pc' = [pc EXCEPT ![j] = "notify"]
    /\ UNCHANGED <<scriptState, http, proc, elapsed, posts, kills>>
    /\ UNCHANGED <<reqVars, fnVars, logVars>>

\* main.py:150-153, 184-188: the wait ends with an exception that is not
\* the timeout
CommunicateRaises(j) ==
    /\ pc[j] = "waiting"
    /\ ~DeadlineReached(j)
    /\ ExceptHandler(j, proc[j], kills[j], "communicate")
    /\ UNCHANGED <<scriptState, http, elapsed, posts>>
    /\ UNCHANGED <<reqVars, fnVars, logVars>>

\* main.py:154-163: the deadline was reached first
Timeout(j) ==
    /\ pc[j] = "waiting"
    /\ DeadlineReached(j)
    /\ \E os \in OsAnswersFor(j, proc[j]) :
          LET r == kill_process_group(proc[j], os)
              ks == Append(kills[j], KillEntry(os, r))
          IN  IF r.raised
              THEN ExceptHandler(j, r.proc, ks, "kill")
              ELSE /\ proc' = ProcAfterKill(j, proc[j], os, r)
                   /\ kills' = [kills EXCEPT ![j] = ks]
                   /\ outcomes' = [outcomes EXCEPT ![j] = Append(@, TimeoutPayload)]
                   /\ pc' = [pc EXCEPT ![j] = "notify"]
    /\ UNCHANGED <<scriptState, http, elapsed, posts>>
    /\ UNCHANGED <<reqVars, fnVars, logVars>>

\* main.py:163-165, 181-182, 188-189: the single client.post of the
\* current payload; ok = the call returned (whatever the response status),
\* ~ok = it raised (callback unreachable)
Deliver(j) ==
    /\ pc[j] = "notify"
    /\ \E ok \in BOOLEAN :
          /\ posts' = [posts EXCEPT ![j] =
                          Append(@, [payload |-> Last(outcomes[j]), ok |-> ok])]
          /\ IF ok
             THEN /\ pc' = [pc EXCEPT ![j] = "done"]
                  /\ UNCHANGED <<proc, kills, outcomes>>
             ELSE IF Last(outcomes[j]).kind = "InternalError"
             THEN \* raised inside the except block: nothing catches it
                  /\ pc' = [pc EXCEPT ![j] = "escaped"]
                  /\ UNCHANGED <<proc, kills, outcomes>>
             ELSE ExceptHandler(j, proc[j], kills[j], "post")
    /\ UNCHANGED <<scriptState, http, elapsed>>
    /\ UNCHANGED <<reqVars, fnVars, logVars>>

\* ------------------------------------------------------------------------
\* The environment: wall clock and the processes of the group
\* ------------------------------------------------------------------------
\* Time passes while the task waits.  A completed communicate() wakes the
\* task at once, so the clock does not move past a ready completion.
Tick(j) ==
    /\ pc[j] = "waiting"
    /\ elapsed[j] < BUILD_TIMEOUT
    /\ ~CommReady(j)
    /\ elapsed' = [elapsed EXCEPT ![j] = Min(@ + TickSeconds, BUILD_TIMEOUT)]
    /\ UNCHANGED <<scriptState, pc, http, proc, outcomes, posts, kills>>
    /\ UNCHANGED <<reqVars, fnVars, logVars>>

\* create.sh starts a descendant in its group (bash -> gemini -> uv ...);
\* the descendant either inherits the stdout/stderr pipes or not
Fork(j) ==
    /\ proc[j].leader = "alive"
    /\ proc[j].desc = "none"
    /\ \E pipe \in BOOLEAN :
          proc' = [proc EXCEPT ![j].desc = "alive", ![j].descPipe = pipe]
    /\ UNCHANGED <<scriptState, pc, http, elapsed, outcomes, posts, kills>>
    /\ UNCHANGED <<reqVars, fnVars, logVars>>

\* create.sh exits on its own; asyncio's child watcher reaps it
LeaderExit(j) ==
    /\ proc[j].leader = "alive"
    /\ \E code \in ExitCodes :
          proc' = [proc EXCEPT ![j].leader = "reaped", ![j].rc = code,
                               ![j].exitAt = elapsed[j]]
    /\ UNCHANGED <<scriptState, pc, http, elapsed, outcomes, posts, kills>>
    /\ UNCHANGED <<reqVars, fnVars, logVars>>

\* the descendant exits on its own
DescExit(j) ==
    /\ proc[j].desc = "alive"
    /\ proc' = [proc EXCEPT ![j].desc = "dead", ![j].descPipe = FALSE]
    /\ UNCHANGED <<scriptState, pc, http, elapsed, outcomes, posts, kills>>
    /\ UNCHANGED <<reqVars, fnVars, logVars>>

Next ==
    \E j \in Jobs :
        \/ generate_site(j)
        \/ StartTask(j)
        \/ SpawnOk(j)
        \/ SpawnFail(j)
        \/ Complete(j)
        \/ CommunicateRaises(j)
        \/ Timeout(j)
        \/ Deliver(j)
        \/ Tick(j)
        \/ Fork(j)
        \/ LeaderExit(j)
        \/ DescExit(j)

Spec == Init /\ [][Next]_vars

\* The scheduling the code relies on: the event loop resumes a task whose
\* await is complete, the wall clock advances, and client.post returns or
\* raises (httpx applies its own timeout to the request)
Fairness ==
    \A j \in Jobs :
        /\ WF_vars(StartTask(j))
        /\ WF_vars(SpawnOk(j) \/ SpawnFail(j))
        /\ WF_vars(Complete(j))
        /\ WF_vars(Timeout(j))
        /\ WF_vars(Deliver(j))
        /\ WF_vars(Tick(j))

\* Termination does not depend on the text of a name or of the base URL:
\* one deployment, every request for the same business.
FairInit ==
    /\ Init
    /\ requests = [j \in Jobs |-> <<"L", "'", " ", "3">>]
    /\ REMOTE_SITE_URL = <<"http://h">>

FairSpec == FairInit /\ [][Next]_vars /\ Fairness

\* ------------------------------------------------------------------------
\* Two requests for the same business on a server that has been running
\* long enough for pids to be reused
\* ------------------------------------------------------------------------
PairJobs == {1, 2}

PairInit ==
    /\ scriptState = "ok"
    /\ requests = [j \in PairJobs |-> <<"L", "'", " ", "3">>]
    /\ REMOTE_SITE_URL = <<>>
    /\ pidReuse = TRUE
    /\ env = ServerEnv
    /\ Started
    /\ pc = [j \in PairJobs |-> "idle"]
    /\ http = [j \in PairJobs |-> 0]
    /\ proc = [j \in PairJobs |-> NoProcess]
    /\ elapsed = [j \in PairJobs |-> 0]
    /\ outcomes = [j \in PairJobs |-> <<>>]
    /\ posts = [j \in PairJobs |-> <<>>]
    /\ kills = [j \in PairJobs |-> <<>>]
    /\ ack = [j \in PairJobs |-> NoAck]
    /\ FnIdle
    /\ LogIdle

PairNext ==
    \E j \in PairJobs :
        \/ generate_site(j)
        \/ StartTask(j)
        \/ SpawnOk(j)
        \/ SpawnFail(j)
        \/ Complete(j)
        \/ CommunicateRaises(j)
        \/ Timeout(j)
        \/ Deliver(j)
        \/ Tick(j)
        \/ Fork(j)
        \/ LeaderExit(j)
        \/ DescExit(j)

PairSpec == PairInit /\ [][PairNext]_vars

\* ------------------------------------------------------------------------
\* The server from its start: the startup handler runs once, before any
\* request is served, in whatever environment the operator left; one
\* request follows.
\* ------------------------------------------------------------------------
StartJobs == {1}

\* values of an API key variable: unset or empty, blank, set
KeyValues == {<<>>, <<" ">>, <<"k">>}

StartInit ==
    /\ scriptState \in {"missing", "noexec", "ok"}
    /\ env \in [GEMINI_API_KEY : KeyValues, OPENROUTER_API_KEY : KeyValues]
    /\ startup = [done |-> FALSE, errors |-> <<>>]
    /\ requests = [j \in StartJobs |-> <<"L", "'", " ", "3">>]
    /\ REMOTE_SITE_URL = <<>>
    /\ pidReuse = FALSE
    /\ pc = [j \in StartJobs |-> "idle"]
    /\ http = [j \in StartJobs |-> 0]
    /\ proc = [j \in StartJobs |-> NoProcess]
    /\ elapsed = [j \in StartJobs |-> 0]
    /\ outcomes = [j \in StartJobs |-> <<>>]
    /\ posts = [j \in StartJobs |-> <<>>]
    /\ kills = [j \in StartJobs |-> <<>>]
    /\ ack = [j \in StartJobs |-> NoAck]
    /\ FnIdle
    /\ LogIdle

\* main.py:49-82: the errors are printed, nothing is raised or stored
validate_environment ==
    /\ ~startup.done
    /\ startup' = [done |-> TRUE, errors |-> startup_errors(scriptState, env)]
    /\ UNCHANGED <<orchVars, requests, REMOTE_SITE_URL, ack, env, pidReuse>>
    /\ UNCHANGED <<fnVars, logVars>>

StartNext ==
    \/ validate_environment
    \/ \E j \in StartJobs :
          \/ generate_site(j)
          \/ StartTask(j)
          \/ SpawnOk(j)
          \/ SpawnFail(j)
          \/ Complete(j)
          \/ CommunicateRaises(j)
          \/ Timeout(j)
          \/ Deliver(j)
          \/ Tick(j)
          \/ Fork(j)
          \/ LeaderExit(j)
          \/ DescExit(j)

StartSpec == StartInit /\ [][StartNext]_vars

\* ------------------------------------------------------------------------
\* The pure functions on their own: _site_slug, the slug of the test
\* harness and the three payload builders, each applied to an input drawn
\* at the start
\* ------------------------------------------------------------------------
MaxNameLen == 3

SeqsUpTo(S, n) == UNION {[1 .. k -> S] : k \in 0 .. n}

\* upper and lower case, a digit, a space, a hyphen, a stripped character
NameChars == {"L", "l", "3", " ", "-", "'"}

AllNames == SeqsUpTo(NameChars, MaxNameLen)

\* names compared two by two
PairChars == {"L", "l", " "}

PairNames == SeqsUpTo(PairChars, MaxNameLen)

\* what the child wrote on stderr, as bytes
StderrTexts ==
    {<<>>, <<"d">>, <<"d", " ", "f">>, <<" ", "d", "LF">>, <<"d", "xFF">>}

\* values of BUILD_TIMEOUT an operator may set (main.py:37-40)
Limits == {1, 2, 59, 60, 61, 120, BUILD_TIMEOUT}

FnInputs ==
    {[fn |-> "slug", names |-> <<n>>] : n \in AllNames}
    \cup {[fn |-> "slug", names |-> <<a, b>>] : a \in PairNames, b \in PairNames}
    \cup {[fn |-> "success", name |-> n] : n \in AllNames}
    \cup {[fn |-> "failure", name |-> n, stderr |-> e, returncode |-> rc] :
             n \in RequestNames, e \in StderrTexts, rc \in {1, 2}}
    \cup {[fn |-> "timeout", name |-> n, limit |-> l] :
             n \in RequestNames, l \in Limits}

FnInit ==
    /\ scriptState = "ok"
    /\ requests = [j \in Jobs |-> <<"L", "'", " ", "3">>]
    /\ REMOTE_SITE_URL \in RemoteUrls
    /\ OrchIdle
    /\ LogIdle
    /\ fnIn \in FnInputs
    /\ fnOut = NoFnOut

\* main.py:125-129 applied to each name of the input
call_site_slug ==
    /\ fnIn.fn = "slug"
    /\ fnOut.server = <<>>
    /\ fnOut' = [fnOut EXCEPT !.server =
                    [i \in 1 .. Len(fnIn.names) |-> site_slug(fnIn.names[i])]]
    /\ UNCHANGED <<orchVars, reqVars, logVars, fnIn>>

\* tests/test-all.py:245-249 applied to each name of the input
call_slug ==
    /\ fnIn.fn = "slug"
    /\ fnOut.harness = <<>>
    /\ fnOut' = [fnOut EXCEPT !.harness =
                    [i \in 1 .. Len(fnIn.names) |-> slug(fnIn.names[i])]]
    /\ UNCHANGED <<orchVars, reqVars, logVars, fnIn>>

\* main.py:167-174
build_success ==
    /\ fnIn.fn = "success"
    /\ fnOut.payload = <<>>
    /\ fnOut' = [fnOut EXCEPT !.payload =
                    <<success_payload(fnIn.name, REMOTE_SITE_URL)>>]
    /\ UNCHANGED <<orchVars, reqVars, logVars, fnIn>>

\* main.py:175-180
build_failure ==
    /\ fnIn.fn = "failure"
    /\ fnOut.payload = <<>>
    /\ fnOut' = [fnOut EXCEPT !.payload =
                    <<failure_payload(fnIn.name, fnIn.stderr, fnIn.returncode)>>]
    /\ UNCHANGED <<orchVars, reqVars, logVars, fnIn>>

\* main.py:154-162
build_timeout ==
    /\ fnIn.fn = "timeout"
    /\ fnOut.payload = <<>>
    /\ fnOut' = [fnOut EXCEPT !.payload =
                    <<timeout_payload(fnIn.name, fnIn.limit)>>]
    /\ UNCHANGED <<orchVars, reqVars, logVars, fnIn>>

FnNext ==
    \/ call_site_slug
    \/ call_slug
    \/ build_success
    \/ build_failure
    \/ build_timeout

FnSpec == FnInit /\ [][FnNext]_vars

\* ------------------------------------------------------------------------
\* GET /build-log/{slug} (main.py:252-287) for one slug.  sites/<slug>/
\* build.log is written by create.sh, line by line, and read by the
\* queries.  A line is its kind and its length in characters, newline
\* included: "OPEN" starts with the 7 characters of the completion marker,
\* "FAILED" with the 8 of the failure marker, "EXIT1" is "exit 1", "TEXT"
\* holds no marker.
\* ------------------------------------------------------------------------
MaxLogLines == 3

MaxQueries == 2

TailWindow == 2000

OpenLine == [kind |-> "OPEN", len |-> 8]

FailedLine == [kind |-> "FAILED", len |-> 9]

Exit1Line == [kind |-> "EXIT1", len |-> 7]

TextLine(n) == [kind |-> "TEXT", len |-> n]

\* "Total: ~$1.50" and "Total: $1.2.3", lines of the stats block
CostLine == [kind |-> "COST", len |-> 14]

BadCostLine == [kind |-> "BADCOST", len |-> 14]

\* a short line, one that fills the window up to a marker line, and the
\* cost line of the stats block, sound and damaged
LogLines ==
    {OpenLine, FailedLine, Exit1Line, TextLine(1), TextLine(1992),
     CostLine, BadCostLine}

\* the log as _parse_build_stats sees it
log_items(text) ==
    [i \in 1 .. Len(text) |->
        CASE text[i].kind = "COST" ->
                 [label |-> "Total:", value |-> <<"~", "$", "1", ".", "5", "0">>]
          [] text[i].kind = "BADCOST" ->
                 [label |-> "Total:", value |-> <<"$", "1", ".", "2", ".", "3">>]
          [] OTHER -> [label |-> "text", value |-> <<"x">>]]

\* the exception of _parse_build_stats leaves get_build_log: FastAPI
\* answers 500
ServerError == [code |-> 500, build_status |-> "none", log |-> <<>>]

\* values of the query parameter lines
LinesArgs == {0, 2}

\* full_log[-n:] for n > 0: the last n characters; a marker line that is
\* cut has lost the start of its marker
RECURSIVE last_chars(_, _)
last_chars(text, n) ==
    IF text = <<>> \/ n = 0
    THEN <<>>
    ELSE LET l == text[Len(text)]
         IN  IF l.len <= n
             THEN Append(last_chars(SubSeq(text, 1, Len(text) - 1), n - l.len), l)
             ELSE <<[kind |-> IF l.kind = "TEXT" THEN "TEXT" ELSE "CUT",
                     len |-> n]>>

\* marker in text
Contains(text, kind) == \E i \in 1 .. Len(text) : text[i].kind = kind

\* Variant: the first lines are kept, [:lines] for [-lines:]
raw_log_FirstLines(full_log, lines) ==
    IF lines > 0 /\ full_log # <<>>
    THEN LET n    == Len(full_log)
             kept == SubSeq(full_log, 1, IF lines >= n THEN n ELSE lines)
         IN  [kept EXCEPT ![Len(kept)].len = @ - 1]
    ELSE full_log

\* "\n".join(full_log.splitlines()[-lines:]) if lines > 0 else full_log
\* (main.py:271): the join leaves out the newline of the last line
raw_log(full_log, lines) ==
    IF lines > 0 /\ full_log # <<>>
    THEN LET n    == Len(full_log)
             from == IF lines >= n THEN 1 ELSE n - lines + 1
             kept == SubSeq(full_log, from, n)
         IN  [kept EXCEPT ![Len(kept)].len = @ - 1]
    ELSE full_log

\* Variant: the markers are looked for in the whole log
build_status_WholeLog(full_log) ==
    IF Contains(full_log, "OPEN") THEN "complete"
    ELSE IF Contains(full_log, "FAILED") \/ Contains(full_log, "EXIT1")
         THEN "failed"
         ELSE "in_progress"

\* Variant: the failure markers are tested before the completion marker
build_status_FailureFirst(full_log) ==
    LET tail == last_chars(full_log, TailWindow)
    IN  IF Contains(tail, "FAILED") \/ Contains(tail, "EXIT1") THEN "failed"
        ELSE IF Contains(tail, "OPEN") THEN "complete"
             ELSE "in_progress"

\* main.py:273-280
build_status(full_log) ==
    LET tail == last_chars(full_log, TailWindow)
    IN  IF Contains(tail, "OPEN") THEN "complete"
        ELSE IF Contains(tail, "FAILED") \/ Contains(tail, "EXIT1")
             THEN "failed"
             ELSE "in_progress"

\* Variant: the status is read off the text that is returned
query_FromRaw(file, lines) ==
    IF ~file.exists
    THEN [code |-> 404, build_status |-> "none", log |-> <<>>]
    ELSE LET st == parse_build_stats(log_items(file.text))
         IN  IF st.raised
             THEN ServerError
             ELSE [code |-> 200,
                   build_status |-> build_status(raw_log(file.text, lines)),
                   stats |-> st.stats,
                   log |-> raw_log(file.text, lines)]

\* Variant: the file is opened without the test of its existence and a
\* missing file reads as empty
query_NoExistsTest(file, lines) ==
    LET st == parse_build_stats(log_items(file.text))
    IN  IF st.raised
        THEN ServerError
        ELSE [code |-> 200,
              build_status |-> build_status(file.text),
              stats |-> st.stats,
              log |-> raw_log(file.text, lines)]

\* Variant: the stats are parsed from the text that is returned
query_StatsFromRaw(file, lines) ==
    IF ~file.exists
    THEN [code |-> 404, build_status |-> "none", log |-> <<>>]
    ELSE LET st == parse_build_stats(log_items(raw_log(file.text, lines)))
         IN  IF st.raised
             THEN ServerError
             ELSE [code |-> 200,
                   build_status |-> build_status(file.text),
                   stats |-> st.stats,
                   log |-> raw_log(file.text, lines)]

\* the answer of get_build_log to one query (main.py:261-287)
query(file, lines) ==
    IF ~file.exists
    THEN [code |-> 404, build_status |-> "none", log |-> <<>>]
    ELSE LET st == parse_build_stats(log_items(file.text))
         IN  IF st.raised
             THEN ServerError
             ELSE [code |-> 200,
                   build_status |-> build_status(file.text),
                   stats |-> st.stats,
                   log |-> raw_log(file.text, lines)]

LogInit ==
    /\ scriptState = "ok"
    /\ requests = [j \in Jobs |-> <<"L", "'", " ", "3">>]
    /\ REMOTE_SITE_URL = <<>>
    /\ OrchIdle
    /\ FnIdle
    /\ LogIdle

\* create.sh creates sites/<slug>/build.log
create_log ==
    /\ ~logFile.exists
    /\ logFile' = [logFile EXCEPT !.exists = TRUE]
    /\ UNCHANGED <<orchVars, reqVars, fnVars, snaps, waiter>>

\* create.sh appends a line
append_line ==
    /\ logFile.exists
    /\ Len(logFile.text) < MaxLogLines
    /\ \E l \in LogLines : logFile' = [logFile EXCEPT !.text = Append(@, l)]
    /\ UNCHANGED <<orchVars, reqVars, fnVars, snaps, waiter>>

\* Variant: the answer of the first query is kept and served again
get_build_log_Cached ==
    /\ Len(snaps) < MaxQueries
    /\ \E lines \in LinesArgs :
          snaps' = Append(snaps, [file |-> logFile, lines |-> lines,
                                  answer |-> IF snaps = <<>>
                                             THEN query(logFile, lines)
                                             ELSE snaps[1].answer])
    /\ UNCHANGED <<orchVars, reqVars, fnVars, logFile, waiter>>

\* one GET /build-log/{slug}?lines=n, with what it read and what it answered
get_build_log ==
    /\ Len(snaps) < MaxQueries
    /\ \E lines \in LinesArgs :
          snaps' = Append(snaps, [file |-> logFile, lines |-> lines,
                                  answer |-> query(logFile, lines)])
    /\ UNCHANGED <<orchVars, reqVars, fnVars, logFile, waiter>>

LogNext ==
    \/ create_log
    \/ append_line
    \/ get_build_log

LogSpec == LogInit /\ [][LogNext]_vars

\* ------------------------------------------------------------------------
\* step_wait_local (tests/test-all.py:369-418) tailing build.log while
\* create.sh writes it.  Here the text of the log is the sequence of its
\* characters, "x" for any character outside the completion marker, and
\* the marker "🌐 Open:" in two parts, "@ Op" (@ for the globe sign) and
\* "en:", so that a write() of create.sh can end inside it.  Positions count characters; time is
\* counted in seconds from the start of the step.
\* ------------------------------------------------------------------------
BUILD_WAIT == 3         \* seconds the harness waits (900 unless configured)

MaxLogChars == 3        \* length the log grows to, in characters

\* what one write() appends
Pieces == {<<"x">>, <<"@ Op">>, <<"en:">>, <<"@ Op", "en:">>}

\* DONE_MARKER in text
MarkerIn(text) ==
    \E i \in 1 .. Len(text) - 1 : text[i] = "@ Op" /\ text[i + 1] = "en:"

TailInit ==
    /\ scriptState = "ok"
    /\ requests = [j \in Jobs |-> <<"L", "'", " ", "3">>]
    /\ REMOTE_SITE_URL = <<>>
    /\ OrchIdle
    /\ FnIdle
    /\ logFile = [exists |-> FALSE, text |-> <<>>]
    /\ snaps = <<>>
    /\ waiter = [NoWaiter EXCEPT !.pc = "await_file"]

\* create.sh appends a piece; markerAt keeps the second in which the
\* marker became complete in the file
write_log ==
    /\ waiter.pc # "off"
    /\ logFile.exists
    /\ Len(logFile.text) < MaxLogChars
    /\ \E piece \in Pieces :
          LET text == logFile.text \o piece
          IN  /\ logFile' = [logFile EXCEPT !.text = text]
              /\ waiter' = [waiter EXCEPT !.markerAt =
                               IF @ = NotWritten /\ MarkerIn(text)
                               THEN waiter.now ELSE @]
    /\ UNCHANGED <<orchVars, reqVars, fnVars, snaps>>

\* tests/test-all.py:382-390: one round of the wait for the file
wait_for_file ==
    /\ waiter.pc = "await_file"
    /\ waiter' =
          IF logFile.exists THEN [waiter EXCEPT !.pc = "tail"]
          ELSE IF waiter.now > BUILD_WAIT
               THEN [waiter EXCEPT !.pc = "finished"]
               ELSE [waiter EXCEPT !.now = @ + 2]
    /\ UNCHANGED <<orchVars, reqVars, fnVars, logFile, snaps>>

\* tests/test-all.py:397-408: one round of the tail loop (seek, read,
\* test of the chunk, sleep), or its end at the deadline
read_chunk ==
    /\ waiter.pc = "tail"
    /\ waiter' =
          IF waiter.now < BUILD_WAIT
          THEN LET chunk == SubSeq(logFile.text, waiter.last_pos + 1,
                                   Len(logFile.text))
               IN  IF MarkerIn(chunk)
                   THEN [waiter EXCEPT !.last_pos = @ + Len(chunk),
                                       !.done = TRUE, !.pc = "finished"]
                   ELSE [waiter EXCEPT !.last_pos = @ + Len(chunk),
                                       !.now = @ + 1]
          ELSE [waiter EXCEPT !.pc = "finished"]
    /\ UNCHANGED <<orchVars, reqVars, fnVars, logFile, snaps>>

TailNext ==
    \/ create_log
    \/ write_log
    \/ wait_for_file
    \/ read_chunk

TailSpec == TailInit /\ [][TailNext]_vars

\* ------------------------------------------------------------------------
\* _parse_build_stats on its own, applied to a log drawn at the start
\* ------------------------------------------------------------------------
MaxStatItems == 2

\* for every pattern a value that matches and one that does not; for the
\* cost also values that match and are not numbers
StatItems ==
    {[label |-> "text", value |-> <<"x">>],
     [label |-> "Total time:", value |-> <<"4", "m", " ", "2", "s">>],
     [label |-> "Total time:", value |-> <<"4", "m">>],
     [label |-> "Mode:", value |-> <<"w", " ", "(", "x", " ", ")">>],
     [label |-> "Mode:", value |-> <<"w">>],
     [label |-> "Generated:", value |-> <<"3", " ", "/", "1", "0">>],
     [label |-> "Generated:", value |-> <<"3", "/">>],
     [label |-> "Failed:", value |-> <<"2">>],
     [label |-> "Failed:", value |-> <<"x">>],
     [label |-> "Total:", value |-> <<"~", "$", "1", ".", "5", "0">>],
     [label |-> "Total:", value |-> <<"$", "1", ".", "2", ".", "3">>],
     [label |-> "Total:", value |-> <<".", ".", ".">>],
     [label |-> "Total:", value |-> <<"x">>],
     [label |-> "Assets size:", value |-> <<"2", "M">>],
     [label |-> "Total size:", value |-> <<"3", "M">>],
     [label |-> "Open:", value |-> <<"http://", "x">>],
     [label |-> "Open:", value |-> <<"ftp://", "x">>]}

StatsInit ==
    /\ scriptState = "ok"
    /\ requests = [j \in Jobs |-> <<"L", "'", " ", "3">>]
    /\ REMOTE_SITE_URL = <<>>
    /\ OrchIdle
    /\ LogIdle
    /\ fnIn \in {[fn |-> "stats", log_text |-> l] :
                    l \in SeqsUpTo(StatItems, MaxStatItems)}
    /\ fnOut = NoFnOut

\* main.py:215-249 applied to the input
call_parse_build_stats ==
    /\ fnIn.fn = "stats"
    /\ fnOut.stats = <<>>
    /\ fnOut' = [fnOut EXCEPT !.stats = <<parse_build_stats(fnIn.log_text)>>]
    /\ UNCHANGED <<orchVars, reqVars, logVars, fnIn>>

StatsNext == call_parse_build_stats

StatsSpec == StatsInit /\ [][StatsNext]_vars

\* ------------------------------------------------------------------------
\* One request followed through the three places that name its job: the
\* response of POST /generate-site, the payload of the success callback,
\* and the file GET /build-log/{slug} opens when the client passes the
\* site_slug it was given in the response.
\* ------------------------------------------------------------------------
\* os.path.join for relative components: an empty component adds no
\* separator of its own
path_join(parts) ==
    LET RECURSIVE Join(_)
        Join(i) ==
            IF i = 0 THEN <<>>
            ELSE LET head == Join(i - 1)
                 IN  IF head = <<>> \/ Last(head) = "/"
                     THEN head \o parts[i]
                     ELSE head \o <<"/">> \o parts[i]
    IN  Join(Len(parts))

\* main.py:261
log_path(s) == path_join(<<(<<"sites">>), s, (<<"build.log">>)>>)

IdInit ==
    /\ scriptState = "ok"
    /\ requests = [j \in Jobs |-> <<"L", "'", " ", "3">>]
    /\ REMOTE_SITE_URL \in RemoteUrls
    /\ OrchIdle
    /\ LogIdle
    /\ fnIn \in {[fn |-> "request", name |-> n] : n \in AllNames}
    /\ fnOut = NoFnOut

\* main.py:199-208
respond ==
    /\ fnIn.fn = "request"
    /\ fnOut.response = <<>>
    /\ fnOut' = [fnOut EXCEPT !.response =
                    <<generate_site_response(fnIn.name, REMOTE_SITE_URL)>>]
    /\ UNCHANGED <<orchVars, reqVars, logVars, fnIn>>

\* main.py:167-174
notify_success ==
    /\ fnIn.fn = "request"
    /\ fnOut.payload = <<>>
    /\ fnOut' = [fnOut EXCEPT !.payload =
                    <<success_payload(fnIn.name, REMOTE_SITE_URL)>>]
    /\ UNCHANGED <<orchVars, reqVars, logVars, fnIn>>

\* main.py:252-262 for the slug announced in the response
locate_log ==
    /\ fnIn.fn = "request"
    /\ fnOut.response # <<>>
    /\ fnOut.log_path = <<>>
    /\ fnOut' = [fnOut EXCEPT !.log_path =
                    <<log_path(fnOut.response[1].site_slug)>>]
    /\ UNCHANGED <<orchVars, reqVars, logVars, fnIn>>

IdNext ==
    \/ respond
    \/ notify_success
    \/ locate_log

IdSpec == IdInit /\ [][IdNext]_vars

\* ------------------------------------------------------------------------
\* image.py: generate_image (212-237) with its two providers.  What a
\* provider's service answers is an input of the run: an image, an HTTP
\* error, a reply without image data, or a call that raises (network
\* error, malformed JSON, unwritable file).
\* ------------------------------------------------------------------------
Replies == {"image", "http_error", "no_image", "raises"}

Success == [success |-> TRUE, raised |-> FALSE]

Failure == [success |-> FALSE, raised |-> FALSE]

\* Variant: the body of the provider is not wrapped in try/except
provider_result_Unguarded(has_api_key, reply) ==
    IF ~has_api_key THEN Failure
    ELSE IF reply = "image" THEN Success
    ELSE IF reply = "raises" THEN [success |-> FALSE, raised |-> TRUE]
    ELSE Failure

\* generate_with_openrouter (image.py:115-209) and generate_with_gemini
\* (image.py:64-112): True for an image that was saved, False without a
\* key, for every other reply and for every exception
provider_result(has_api_key, reply) ==
    IF ~has_api_key THEN Failure
    ELSE IF reply = "image" THEN Success
    ELSE Failure

\* image.py:222-226
provider_list(provider) ==
    IF provider = "auto" THEN <<"openrouter", "gemini">> ELSE <<provider>>

ImageInputs ==
    {[fn |-> "image", provider |-> p, makedirs |-> d,
      has_key |-> [openrouter |-> ko, gemini |-> kg],
      reply |-> [openrouter |-> ro, gemini |-> rg]] :
        p \in {"auto", "gemini", "openrouter"}, d \in {"ok", "raises"},
        ko \in BOOLEAN, kg \in BOOLEAN, ro \in Replies, rg \in Replies}

ImageInit ==
    /\ scriptState = "ok"
    /\ requests = [j \in Jobs |-> <<"L", "'", " ", "3">>]
    /\ REMOTE_SITE_URL = <<>>
    /\ OrchIdle
    /\ LogIdle
    /\ fnIn \in ImageInputs
    /\ fnOut = NoFnOut

\* image.py:218-220: os.makedirs(output_dir, exist_ok=True); an OSError
\* is not caught and ends the program with a traceback, exit status 1
make_output_dir ==
    /\ fnIn.fn = "image"
    /\ fnOut.run.pc = "start"
    /\ fnOut' = [fnOut EXCEPT !.run =
                    IF fnIn.makedirs = "ok"
                    THEN [@ EXCEPT !.pc = "providers"]
                    ELSE [@ EXCEPT !.pc = "exited", !.status = 1]]
    /\ UNCHANGED <<orchVars, reqVars, logVars, fnIn>>

\* image.py:228-237: one round of the loop over provider_list, with the
\* sys.exit(1) that follows the last round
try_provider ==
    /\ fnIn.fn = "image"
    /\ fnOut.run.pc = "providers"
    /\ LET list == provider_list(fnIn.provider)
           prov == list[Len(fnOut.run.calls) + 1]
           r    == provider_result(fnIn.has_key[prov], fnIn.reply[prov])
           done == Append(fnOut.run.calls, [provider |-> prov, result |-> r])
       IN  fnOut' = [fnOut EXCEPT !.run =
                        IF r.raised
                        THEN [pc |-> "exited", calls |-> done, status |-> 1]
                        ELSE IF r.success
                        THEN [pc |-> "exited", calls |-> done, status |-> 0]
                        ELSE IF Len(done) = Len(list)
                        THEN [pc |-> "exited", calls |-> done, status |-> 1]
                        ELSE [pc |-> "providers", calls |-> done,
                              status |-> "running"]]
    /\ UNCHANGED <<orchVars, reqVars, logVars, fnIn>>

ImageNext ==
    \/ make_output_dir
    \/ try_provider

ImageSpec == ImageInit /\ [][ImageNext]_vars

\* ------------------------------------------------------------------------
\* GET /scrape-maps (main.py:390-425): what the handler does with query,
\* business_type and location before the scrape starts
\* ------------------------------------------------------------------------
MaxParamLen == 2

ParamValues == SeqsUpTo({"a", " "}, MaxParamLen)

\* Variant: a raw query, when given, wins over the structured parameters
scrape_params_QueryFirst(raw_query, business_type, location) ==
    IF raw_query = <<>> /\ ~(business_type # <<>> /\ location # <<>>)
    THEN [code |-> 422]
    ELSE IF raw_query # <<>>
    THEN [code |-> 200, effective_query |-> strip(raw_query)]
    ELSE [code |-> 200,
          effective_query |->
              strip(business_type) \o <<" ">> \o strip(location)]

\* main.py:412-424; a str is true when it is not empty
scrape_params(raw_query, business_type, location) ==
    IF raw_query = <<>> /\ ~(business_type # <<>> /\ location # <<>>)
    THEN [code |-> 422]
    ELSE IF business_type # <<>> /\ location # <<>>
    THEN [code |-> 200,
          effective_query |->
              strip(business_type) \o <<" ">> \o strip(location)]
    ELSE [code |-> 200, effective_query |-> strip(raw_query)]

ScrapeInit ==
    /\ scriptState = "ok"
    /\ requests = [j \in Jobs |-> <<"L", "'", " ", "3">>]
    /\ REMOTE_SITE_URL = <<>>
    /\ OrchIdle
    /\ LogIdle
    /\ fnIn \in {[fn |-> "scrape", query |-> q, business_type |-> b,
                  location |-> l] :
                    q \in ParamValues, b \in ParamValues, l \in ParamValues}
    /\ fnOut = NoFnOut

scrape_google_maps ==
    /\ fnIn.fn = "scrape"
    /\ fnOut.scrape = <<>>
    /\ fnOut' = [fnOut EXCEPT !.scrape =
                    <<scrape_params(fnIn.query, fnIn.business_type,
                                    fnIn.location)>>]
    /\ UNCHANGED <<orchVars, reqVars, logVars, fnIn>>

ScrapeNext == scrape_google_maps

ScrapeSpec == ScrapeInit /\ [][ScrapeNext]_vars

\* ------------------------------------------------------------------------
\* Configuration of the test harness (tests/test-all.py:77-179).  A CLI
\* argument or an environment variable is given or not, and has a value
\* when given; argparse leaves None for an argument that is not given.
\* A URL is the sequence scheme "http://", host, and what follows.
\* ------------------------------------------------------------------------
Given(v) == [given |-> TRUE, value |-> v]

NotGiven(v) == [given |-> FALSE, value |-> v]

\* the truth value Python gives to an optional string or integer
TruthyStr(o) == o.given /\ o.value # <<>>

TruthyInt(o) == o.given /\ o.value # 0

\* os.environ.get(key, default)
environ_get(o, default) == IF o.given THEN o.value ELSE default

\* s.rstrip("/")
RECURSIVE rstrip_slash(_)
rstrip_slash(s) ==
    IF s # <<>> /\ Last(s) = "/" THEN rstrip_slash(SubSeq(s, 1, Len(s) - 1))
    ELSE s

\* tests/test-all.py:107-115
resolve_bool(args_val, env_val, default) ==
    IF args_val.given THEN args_val.value
    ELSE LET e == lower(environ_get(env_val, <<>>))
         IN  IF e \in {<<"t", "r", "u", "e">>, <<"1">>, <<"y", "e", "s">>}
             THEN TRUE
             ELSE IF e \in {<<"f", "a", "l", "s", "e">>, <<"0">>, <<"n", "o">>}
                  THEN FALSE
                  ELSE default

\* tests/test-all.py:119-132
resolve_base_url(args, environ) ==
    IF TruthyStr(args.base_url) THEN rstrip_slash(args.base_url.value)
    ELSE IF TruthyStr(environ.BASE_URL)
    THEN rstrip_slash(environ.BASE_URL.value)
    ELSE IF TruthyStr(args.host)
    THEN <<"http://">> \o args.host.value \o <<":">> \o
           (IF TruthyStr(args.port) THEN args.port.value
            ELSE environ_get(environ.PORT, <<"8000">>))
    ELSE <<"http://", "localhost", ":">> \o
           environ_get(environ.PORT, <<"8000">>)

\* tests/test-all.py:135
resolve_webhook_url(args, environ) ==
    IF TruthyStr(args.webhook_url) THEN args.webhook_url.value
    ELSE environ_get(environ.WEBHOOK_URL,
                     <<"https://", "webhook.site", "/", "dummy-test-url">>)

\* tests/test-all.py:136
resolve_build_wait(args, environ) ==
    IF TruthyInt(args.build_wait) THEN args.build_wait.value
    ELSE int(environ_get(environ.BUILD_WAIT, <<"9", "0", "0">>))

\* tests/test-all.py:155-177; urlparse gives the scheme and the host
resolve_remote_site_url(args, environ, base_url) ==
    IF TruthyStr(args.remote_url) THEN rstrip_slash(args.remote_url.value)
    ELSE IF TruthyStr(environ.REMOTE_SITE_URL)
    THEN rstrip_slash(environ.REMOTE_SITE_URL.value)
    ELSE IF TruthyStr(args.host) THEN <<"http://">> \o args.host.value
    ELSE SubSeq(base_url, 1, 2)

\* the settings of one run of the harness
resolve_config(args, environ) ==
    LET base == resolve_base_url(args, environ)
    IN  [REMOTE |-> resolve_bool(args.remote, environ.REMOTE, FALSE),
         BASE_URL |-> base,
         WEBHOOK_URL |-> resolve_webhook_url(args, environ),
         BUILD_WAIT |-> resolve_build_wait(args, environ),
         REMOTE_SITE_URL |-> resolve_remote_site_url(args, environ, base)]

CliUrl == <<"http://", "cli", ":", "1", "/">>

EnvUrl == <<"http://", "env", ":", "2", "/">>

\* --remote is store_true with default None
CliArgs ==
    [remote : {NotGiven(FALSE), Given(TRUE)},
     host : {NotGiven(<<>>), Given(<<"h">>)},
     port : {NotGiven(<<>>), Given(<<"8080">>)},
     base_url : {NotGiven(<<>>), Given(CliUrl)},
     remote_url : {NotGiven(<<>>), Given(<<"http://", "cliweb", "/">>)},
     build_wait : {NotGiven(0), Given(0), Given(5)},
     webhook_url : {NotGiven(<<>>), Given(<<"http://", "cli", "/", "hook">>)}]

Environs ==
    [REMOTE : {NotGiven(<<>>), Given(<<"Y", "E", "S">>), Given(<<"n", "o">>)},
     BASE_URL : {NotGiven(<<>>), Given(EnvUrl)},
     PORT : {NotGiven(<<>>), Given(<<"9000">>)},
     REMOTE_SITE_URL : {NotGiven(<<>>), Given(<<"http://", "envweb", "/">>)},
     BUILD_WAIT : {NotGiven(<<>>), Given(<<"7">>)},
     WEBHOOK_URL : {NotGiven(<<>>), Given(<<"http://", "env", "/", "hook">>)}]

ConfigInit ==
    /\ scriptState = "ok"
    /\ requests = [j \in Jobs |-> <<"L", "'", " ", "3">>]
    /\ REMOTE_SITE_URL = <<>>
    /\ OrchIdle
    /\ LogIdle
    /\ fnIn \in {[fn |-> "config", args |-> a, environ |-> e] :
                    a \in CliArgs, e \in Environs}
    /\ fnOut = NoFnOut

\* the module-level assignments of tests/test-all.py:104-179
load_config ==
    /\ fnIn.fn = "config"
    /\ fnOut.config = <<>>
    /\ fnOut' = [fnOut EXCEPT !.config =
                    <<resolve_config(fnIn.args, fnIn.environ)>>]
    /\ UNCHANGED <<orchVars, reqVars, logVars, fnIn>>

ConfigNext == load_config

ConfigSpec == ConfigInit /\ [][ConfigNext]_vars

\* ------------------------------------------------------------------------
\* The lifecycle state of a job (spec 4.2), read off the position of its
\* task and the last payload it built
\* ------------------------------------------------------------------------
Terminal == {"SUCCEEDED", "FAILED", "TIMED_OUT", "ERRORED"}

StateOfKind(kind) ==
    CASE kind = "Success" -> "SUCCEEDED"
      [] kind = "Failure" -> "FAILED"
      [] kind = "Timeout" -> "TIMED_OUT"
      [] OTHER -> "ERRORED"

JobState(j) ==
    CASE pc[j] = "idle" -> "NONE"
      [] pc[j] = "rejected" -> "REJECTED"
      [] pc[j] = "accepted" -> "ACCEPTED"
      [] pc[j] \in {"spawning", "waiting"} -> "RUNNING"
      [] OTHER -> IF outcomes[j] = <<>> THEN "ERRORED"
                  ELSE StateOfKind(Last(outcomes[j]).kind)

Finished(j) == pc[j] \in {"done", "escaped"}

TimedOut(j) == \E i \in 1 .. Len(outcomes[j]) : outcomes[j][i].kind = "Timeout"

Degraded(e) == e.branch \in {"fallback", "fallback_failed"}

\* ------------------------------------------------------------------------
\* C1: every accepted request produces exactly one Outcome and attempts
\* exactly one POST on its webhook_url over the whole run: never more than
\* one at any time, and exactly one once the task has ended.
\* ------------------------------------------------------------------------
C1_ExactlyOneOutcomeOnePost ==
    \A j \in Jobs :
        /\ Len(outcomes[j]) <= 1
        /\ Len(posts[j]) <= 1
        /\ Finished(j) => (Len(outcomes[j]) = 1 /\ Len(posts[j]) = 1)

\* ------------------------------------------------------------------------
\* C2: when the delivery attempt of a success, error (exit code) or timeout
\* payload raises, it is the last POST of the job and the payload it
\* carried stays the job's outcome: no retry, no other payload.
\* ------------------------------------------------------------------------
C2_FailedDeliveryIsFinal ==
    \A j \in Jobs :
        \A i \in 1 .. Len(posts[j]) :
            (~posts[j][i].ok /\ posts[j][i].payload.kind # "InternalError")
                => /\ i = Len(posts[j])
                   /\ Last(outcomes[j]) = posts[j][i].payload

\* ------------------------------------------------------------------------
\* C3: a job moves ACCEPTED -> RUNNING -> one terminal state and nowhere
\* else, a terminal state is never left, and a POST is made only when the
\* job is already in a terminal state.
\* ------------------------------------------------------------------------
C3_LifecycleOrder ==
    [][\A j \in Jobs :
          /\ \/ JobState(j)' = JobState(j)
             \/ JobState(j) = "NONE" /\ JobState(j)' \in {"ACCEPTED", "REJECTED"}
             \/ JobState(j) = "ACCEPTED" /\ JobState(j)' = "RUNNING"
             \/ JobState(j) = "RUNNING" /\ JobState(j)' \in Terminal
          /\ posts'[j] # posts[j] => JobState(j) \in Terminal]_vars

\* ------------------------------------------------------------------------
\* C4: once the timeout outcome of a job exists, _kill_process_group has
\* been called for it, and unless that call had to fall back to killing
\* the direct child only (C8), no process of the job's group is alive.
\* ------------------------------------------------------------------------
C4_TimeoutKillsWholeGroup ==
    \A j \in Jobs :
        TimedOut(j) =>
            /\ kills[j] # <<>>
            /\ ~Degraded(kills[j][1]) => ~GroupAlive(proc[j])

\* ------------------------------------------------------------------------
\* C5 (as stated): a job is reported "timeout" only if the deadline was
\* reached, a job whose process exited on its own before the deadline is
\* never reported "timeout", and a job that reached the deadline is
\* reported "timeout" first and never success or exit-code failure.
\* ------------------------------------------------------------------------
ExitedBeforeDeadline(j) ==
    proc[j].exitAt # NotExited /\ proc[j].exitAt < BUILD_TIMEOUT

PastWait(j) == pc[j] \in {"notify", "done", "escaped"}

TimeoutIsFinal(j) ==
    TimedOut(j) =>
        /\ elapsed[j] >= BUILD_TIMEOUT
        /\ outcomes[j][1].kind = "Timeout"
        /\ \A i \in 2 .. Len(outcomes[j]) : outcomes[j][i].kind = "InternalError"

C5_TimeoutIffProcessExitsLate ==
    \A j \in Jobs :
        /\ TimeoutIsFinal(j)
        /\ (PastWait(j) /\ elapsed[j] >= BUILD_TIMEOUT) => TimedOut(j)
        /\ ExitedBeforeDeadline(j) => ~TimedOut(j)

\* ------------------------------------------------------------------------
\* C5 (amended): the outcome is Timeout if and only if the deadline is
\* reached before communicate() completes (the child has exited and both
\* pipes are at end of file): a job that left the wait before the deadline
\* is never reported "timeout", a job that reached the deadline is
\* reported "timeout" first, and after a timeout payload no success and no
\* exit-code failure payload is ever built.
\* ------------------------------------------------------------------------
C5_TimeoutIffDeadlineBeforeCompletion ==
    \A j \in Jobs :
        /\ TimeoutIsFinal(j)
        /\ (PastWait(j) /\ elapsed[j] >= BUILD_TIMEOUT) => TimedOut(j)
        /\ (PastWait(j) /\ elapsed[j] < BUILD_TIMEOUT) => ~TimedOut(j)

\* a job was reported "timeout" although its child had exited before the
\* deadline (a descendant kept the pipes open), and the task has ended
C5_Witness ==
    \E j \in Jobs : Finished(j) /\ TimedOut(j) /\ ExitedBeforeDeadline(j)

\* ------------------------------------------------------------------------
\* C6: under the scheduling of Fairness every accepted job ends: its task
\* terminates in a terminal state with at least one POST attempted, also
\* when create.sh never exits; and the task never returns to waiting for
\* the process once it has left the wait.
\* ------------------------------------------------------------------------
C6_EveryJobTerminates ==
    /\ \A j \in Jobs :
          (pc[j] = "accepted")
              ~> (Finished(j) /\ JobState(j) \in Terminal /\ Len(posts[j]) >= 1)
    /\ [][\A j \in Jobs : PastWait(j) => pc'[j] # "waiting"]_vars

\* the task of a job has ended after a timeout although create.sh never
\* exited on its own and even survived the kill
C6_Witness ==
    \E j \in Jobs :
        /\ Finished(j) /\ TimedOut(j) /\ Len(posts[j]) >= 1
        /\ proc[j].leader = "alive"

\* ------------------------------------------------------------------------
\* C7: every call of _kill_process_group on a process whose pid is gone
\* returns normally through the ProcessLookupError clause, without warning
\* and without touching any process - also the second call in a row.
\* ------------------------------------------------------------------------
KillCalled(j) == Len(kills'[j]) > Len(kills[j])

C7_KillIdempotent ==
    [][\A j \in Jobs :
          (KillCalled(j) /\ Last(kills'[j]).os = "ESRCH") =>
              /\ proc[j].leader = "reaped"
              /\ Last(kills'[j]).branch = "nosuch"
              /\ ~Last(kills'[j]).raised
              /\ ~Last(kills'[j]).warned
              /\ proc'[j] = proc[j]
              /\ pc'[j] = "notify"]_vars

\* the kill was applied twice in a row to a group whose leader was gone,
\* and both calls returned through the ProcessLookupError clause
C7_Witness ==
    \E j \in Jobs :
        /\ Len(kills[j]) = 2
        /\ kills[j][1].branch = "nosuch"
        /\ kills[j][2].branch = "nosuch"

\* ------------------------------------------------------------------------
\* C8: no call of _kill_process_group raises; when the group kill of a
\* live child fails with a permission or OS error, the warning is printed
\* and only the direct child is killed (the descendant is left as it was),
\* and if that kill fails too nothing changes.  The task goes on to the
\* POST in every case; an exception leaves the task only from the POST of
\* the except block.
\* ------------------------------------------------------------------------
C8_FallbackNeverRaises ==
    /\ [](\A j \in Jobs :
            /\ \A i \in 1 .. Len(kills[j]) : ~kills[j][i].raised
            /\ pc[j] = "escaped" => (posts[j] # <<>> /\ ~Last(posts[j]).ok))
    /\ [][\A j \in Jobs :
            (KillCalled(j) /\ Last(kills'[j]).os \in {"EPERM", "EPERM_TWICE"}) =>
                /\ Degraded(Last(kills'[j]))
                /\ Last(kills'[j]).warned
                /\ proc'[j].desc = proc[j].desc
                /\ Last(kills'[j]).os = "EPERM" =>
                      (proc[j].leader = "alive" /\ proc'[j].leader = "reaped")
                /\ Last(kills'[j]).os = "EPERM_TWICE" => proc'[j] = proc[j]
                /\ pc'[j] = "notify"]_vars

\* the group kill and the fallback kill both failed, the task went on to
\* deliver and ended normally, and a descendant of the group is alive
C8_Witness ==
    \E j \in Jobs :
        /\ pc[j] = "done"
        /\ proc[j].desc = "alive"
        /\ \E i \in 1 .. Len(kills[j]) : kills[j][i].branch = "fallback_failed"

\* ------------------------------------------------------------------------
\* C9: when a job is ERRORED and a process had been created for it,
\* _kill_process_group has been called and, unless that call fell back to
\* the direct child (C8), no process of the job's group is alive; when no
\* process was created the error payload carries the spawn exception.
\* ------------------------------------------------------------------------
C9_ErrorKillsWholeGroup ==
    \A j \in Jobs :
        (outcomes[j] # <<>> /\ JobState(j) = "ERRORED") =>
            IF proc[j].leader = "none"
            THEN kills[j] = <<>> /\ Last(outcomes[j]).error = "spawn"
            ELSE /\ kills[j] # <<>>
                 /\ ~Degraded(Last(kills[j])) => ~GroupAlive(proc[j])

\* ------------------------------------------------------------------------
\* C10: while create.sh is missing or not executable, every request that
\* has been answered was rejected with status 500, has no process and no
\* POST on its webhook_url.
\* ------------------------------------------------------------------------
C10_BadScriptRejected ==
    \A j \in Jobs :
        (scriptState \in {"missing", "noexec"} /\ pc[j] # "idle") =>
            /\ pc[j] = "rejected"
            /\ http[j] = 500
            /\ proc[j] = NoProcess
            /\ posts[j] = <<>>

\* ------------------------------------------------------------------------
\* C11: the response of an accepted request has status "processing", the
\* slug of the requested business name, and site_url exactly when
\* REMOTE_SITE_URL is not empty; it is produced in a step in which the job
\* has no process before or after, and no later step changes it.
\* ------------------------------------------------------------------------
C11_AckBeforeBuild ==
    [][\A j \in Jobs :
          /\ ack'[j] # ack[j] =>
                /\ ack[j] = NoAck
                /\ proc[j] = NoProcess /\ proc'[j] = NoProcess
                /\ outcomes'[j] = <<>> /\ posts'[j] = <<>>
          /\ http'[j] = 200 =>
                /\ ack'[j].status = "processing"
                /\ ack'[j].site_slug = site_slug(requests[j])
                /\ ("site_url" \in DOMAIN ack'[j]) <=> (REMOTE_SITE_URL # <<>>)
                /\ REMOTE_SITE_URL # <<>> =>
                      ack'[j].site_url =
                          REMOTE_SITE_URL \o <<"/">> \o site_slug(requests[j])
                                          \o <<"/index.html">>]_vars

C11_Witness ==
    \E j \in Jobs :
        /\ http[j] = 200
        /\ "site_url" \notin DOMAIN ack[j]
        /\ ack[j].site_slug = <<"l", "-", "3">>
        /\ posts[j] # <<>>

\* ------------------------------------------------------------------------
\* C12: every payload the task builds has status success, error or timeout,
\* and the status follows from what ended the wait: success only when
\* communicate() returned before the deadline with return code 0, error
\* with the stderr text only when it returned with another return code,
\* timeout only when the deadline was reached, and error with the text of
\* the exception when the spawn, the wait, the kill or the POST raised;
\* conversely a returned communicate() gives success or error by its
\* return code alone.
\* ------------------------------------------------------------------------
ExceptionTexts == {"spawn", "communicate", "kill", "post"}

C12_StatusFollowsRun ==
    [][\A j \in Jobs :
          /\ outcomes'[j] # outcomes[j] =>
                LET p == Last(outcomes'[j])
                    returned == /\ pc[j] = "waiting"
                                /\ CommReady(j)
                                /\ ~DeadlineReached(j)
                IN  /\ outcomes'[j] = Append(outcomes[j], p)
                    /\ p.status \in {"success", "error", "timeout"}
                    /\ p.status = "success" => returned /\ proc[j].rc = 0
                    /\ p.status = "timeout" =>
                          pc[j] = "waiting" /\ DeadlineReached(j)
                    /\ p.status = "error" =>
                          \/ returned /\ proc[j].rc # 0 /\ p.error = "stderr"
                          \/ /\ p.error \in ExceptionTexts
                             /\ p.error = "spawn" <=> pc[j] = "spawning"
                             /\ p.error = "post" <=> pc[j] = "notify"
                             /\ p.error = "kill" =>
                                   pc[j] = "waiting" /\ DeadlineReached(j)
                             /\ p.error = "communicate" =>
                                   pc[j] = "waiting" /\ ~DeadlineReached(j)
          /\ (pc[j] = "waiting" /\ pc'[j] = "notify" /\ kills'[j] = kills[j]
                /\ ~DeadlineReached(j)) =>
                Last(outcomes'[j]).status =
                    IF proc[j].rc = 0 THEN "success" ELSE "error"]_vars

C12_Witness ==
    \E j \in Jobs :
        /\ Len(posts[j]) = 1
        /\ posts[j][1].payload.status = "error"
        /\ posts[j][1].payload.error = "stderr"
        /\ proc[j].rc = 1
        /\ pc[j] = "done"

\* ------------------------------------------------------------------------
\* C13: the payload built for a non-zero exit carries the stderr text
\* exactly as the child wrote it and the exit code of the process.
\* ------------------------------------------------------------------------
ExitCodeFields == {"exitCode", "exit_code", "returncode", "code"}

C13_FailureCarriesStderrAndCode ==
    (fnIn.fn = "failure" /\ fnOut.payload # <<>>) =>
        LET p == fnOut.payload[1]
        IN  /\ p.error = fnIn.stderr
            /\ \E f \in ExitCodeFields \cap DOMAIN p : p[f] = fnIn.returncode

\* ------------------------------------------------------------------------
\* C14: the timeout payload carries business_name, and the limit it
\* reports identifies BUILD_TIMEOUT: no other limit gives the same payload.
\* ------------------------------------------------------------------------
C14_TimeoutCarriesLimit ==
    (fnIn.fn = "timeout" /\ fnOut.payload # <<>>) =>
        /\ fnOut.payload[1].business_name = fnIn.name
        /\ \A l \in Limits :
              timeout_payload(fnIn.name, l) = fnOut.payload[1] => l = fnIn.limit

\* ------------------------------------------------------------------------
\* C15: the success payload carries business_name; with REMOTE_SITE_URL
\* set it carries site_url = REMOTE_SITE_URL + "/" + slug + "/index.html";
\* without, it carries site_slug and no site_url.
\* ------------------------------------------------------------------------
C15_SuccessPayloadFields ==
    (fnIn.fn = "success" /\ fnOut.payload # <<>>) =>
        LET p == fnOut.payload[1]
        IN  /\ p.status = "success"
            /\ p.business_name = fnIn.name
            /\ IF REMOTE_SITE_URL # <<>>
               THEN p.site_url = REMOTE_SITE_URL \o <<"/">>
                                   \o site_slug(fnIn.name) \o <<"/index.html">>
               ELSE /\ "site_url" \notin DOMAIN p
                    /\ p.site_slug = site_slug(fnIn.name)

C15_Witness ==
    /\ fnIn.fn = "success"
    /\ fnIn.name = <<"L", "'", " ">>
    /\ fnOut.payload # <<>>
    /\ "site_url" \in DOMAIN fnOut.payload[1]
    /\ fnOut.payload[1].site_url = <<"http://h", "/", "l", "-", "/index.html">>

\* ------------------------------------------------------------------------
\* C16 as stated: two names with the same normalized token sequence (the
\* lower-cased name split at runs of spaces) have the same slug.
\* ------------------------------------------------------------------------
C16_SlugIgnoresCaseAndSpacing ==
    LET RECURSIVE SplitWords(_, _)
        SplitWords(s, cur) ==
            IF s = <<>>
            THEN IF cur = <<>> THEN <<>> ELSE <<cur>>
            ELSE IF Head(s) = " "
                 THEN (IF cur = <<>> THEN <<>> ELSE <<cur>>)
                        \o SplitWords(Tail(s), <<>>)
                 ELSE SplitWords(Tail(s), Append(cur, Head(s)))
        NormalizedTokens(name) == SplitWords(lower(name), <<>>)
    IN  (fnIn.fn = "slug" /\ Len(fnIn.names) = 2 /\ fnOut.server # <<>>) =>
            (NormalizedTokens(fnIn.names[1]) = NormalizedTokens(fnIn.names[2])
                => fnOut.server[1] = fnOut.server[2])

\* ------------------------------------------------------------------------
\* C16 as the code has it: two names that differ only in letter case have
\* the same slug, and every space of a name is one hyphen of its slug, so
\* the slug has as many hyphens as the name has spaces and hyphens.
\* ------------------------------------------------------------------------
C16_SlugIgnoresCaseOnly ==
    LET SameLetter(a, b) ==
            \/ a = b
            \/ \E i \in 1 .. 26 : {a, b} = {UpperLetters[i], LowerLetters[i]}
        DifferInCaseOnly(m, n) ==
            /\ Len(m) = Len(n)
            /\ \A k \in 1 .. Len(m) : SameLetter(m[k], n[k])
        Count(s, S) == Cardinality({k \in 1 .. Len(s) : s[k] \in S})
    IN  (fnIn.fn = "slug" /\ fnOut.server # <<>>) =>
            /\ Len(fnIn.names) = 2 /\ DifferInCaseOnly(fnIn.names[1], fnIn.names[2])
                  => fnOut.server[1] = fnOut.server[2]
            /\ \A i \in 1 .. Len(fnIn.names) :
                  Count(fnOut.server[i], {"-"}) = Count(fnIn.names[i], {" ", "-"})

C16_Witness ==
    /\ fnIn.fn = "slug"
    /\ fnIn.names = << <<"L", " ", "l">>, <<"l", " ", "L">> >>
    /\ fnOut.server = << <<"l", "-", "l">>, <<"l", "-", "l">> >>

\* ------------------------------------------------------------------------
\* C17: every character of a slug is in [a-z0-9-], and the slug function of
\* the test harness gives the value _site_slug gives, for every name.
\* ------------------------------------------------------------------------
C17_SlugAlphabetAndHarness ==
    fnIn.fn = "slug" =>
        /\ \A i \in 1 .. Len(fnOut.server) :
              \A k \in 1 .. Len(fnOut.server[i]) :
                  fnOut.server[i][k] \in SlugChars
        /\ (fnOut.server # <<>> /\ fnOut.harness # <<>>) =>
              fnOut.harness = fnOut.server

C17_Witness ==
    /\ fnIn.fn = "slug"
    /\ fnIn.names = << <<"L", "'", " ">> >>
    /\ fnOut.server = << <<"l", "-">> >>
    /\ fnOut.harness = << <<"l", "-">> >>

\* ------------------------------------------------------------------------
\* C18: the status of every answered query depends only on the last 2000
\* characters of the log it read: complete when a completion marker lies
\* wholly in them; otherwise failed when a failure marker or "exit 1" lies
\* wholly in them; otherwise in_progress.  A marker that starts before
\* them counts for nothing.
\* ------------------------------------------------------------------------
C18_StatusFromTrailingWindow ==
    LET RECURSIVE CharsFrom(_, _)
        CharsFrom(text, i) ==
            IF i > Len(text) THEN 0 ELSE text[i].len + CharsFrom(text, i + 1)
        InWindow(text, kind) ==
            \E i \in 1 .. Len(text) :
                text[i].kind = kind /\ CharsFrom(text, i) <= 2000
        Expected(text) ==
            IF InWindow(text, "OPEN") THEN "complete"
            ELSE IF InWindow(text, "FAILED") \/ InWindow(text, "EXIT1")
                 THEN "failed"
                 ELSE "in_progress"
    IN  \A q \in 1 .. Len(snaps) :
            snaps[q].answer.code = 200 =>
                snaps[q].answer.build_status = Expected(snaps[q].file.text)

\* a completion marker just outside the window, a failure marker inside
C18_Witness ==
    \E q \in 1 .. Len(snaps) :
        /\ snaps[q].file.text = <<OpenLine, TextLine(1992), Exit1Line>>
        /\ snaps[q].answer.build_status = "failed"

\* ------------------------------------------------------------------------
\* C19: when a query has answered complete or failed, every later query
\* that reads the same log answers the same status, whatever its lines
\* parameter.
\* ------------------------------------------------------------------------
C19_StatusStableOnUnchangedLog ==
    \A p, q \in 1 .. Len(snaps) :
        (/\ p < q
         /\ snaps[p].answer.code = 200
         /\ snaps[p].answer.build_status \in {"complete", "failed"}
         /\ snaps[q].file = snaps[p].file) =>
            /\ snaps[q].answer.code = 200
            /\ snaps[q].answer.build_status = snaps[p].answer.build_status

C19_Witness ==
    /\ Len(snaps) >= 2
    /\ snaps[1].file.text = <<OpenLine, TextLine(1), TextLine(1)>>
    /\ snaps[2].file = snaps[1].file
    /\ snaps[1].lines = 0
    /\ snaps[2].lines = 2
    /\ snaps[1].answer.build_status = "complete"
    /\ snaps[2].answer.build_status = "complete"

\* ------------------------------------------------------------------------
\* C20: a query is answered 404 exactly when build.log does not exist at
\* that time, and otherwise it is answered with a status: in_progress on a
\* log without any marker, complete on a log whose last line is the
\* completion marker.
\* ------------------------------------------------------------------------
C20_NotFoundIffNoLog ==
    \A q \in 1 .. Len(snaps) :
        LET text == snaps[q].file.text
            a    == snaps[q].answer
        IN  /\ a.code = 404 <=> ~snaps[q].file.exists
            /\ a.code \in {200, 404}
            /\ (snaps[q].file.exists
                  /\ \A i \in 1 .. Len(text) :
                        text[i].kind \notin {"OPEN", "FAILED", "EXIT1"}) =>
                  a.build_status = "in_progress"
            /\ (text # <<>> /\ text[Len(text)].kind = "OPEN") =>
                  a.build_status = "complete"

\* ------------------------------------------------------------------------
\* C21: _parse_build_stats returns a stats record for every log, also when
\* a label is followed by a damaged value; it never raises.
\* ------------------------------------------------------------------------
C21_StatsNeverRaises ==
    (fnIn.fn = "stats" /\ fnOut.stats # <<>>) => ~fnOut.stats[1].raised

\* ------------------------------------------------------------------------
\* C22: _parse_build_stats returns a record in which every key is present
\* exactly when its own pattern matches somewhere in the log, whatever the
\* other patterns do; with no match at all the record is empty.
\* ------------------------------------------------------------------------
C22_StatsFieldsIndependent ==
    LET LabelOf ==
            [total_time |-> "Total time:", mode |-> "Mode:",
             images_generated |-> "Generated:", images_total |-> "Generated:",
             images_failed |-> "Failed:", estimated_cost_usd |-> "Total:",
             assets_size |-> "Assets size:", total_size |-> "Total size:",
             site_url |-> "Open:"]
        Matches(label, log) ==
            \E i \in 1 .. Len(log) :
                log[i].label = label /\ match_value(label, log[i].value).ok
    IN  (fnIn.fn = "stats" /\ fnOut.stats # <<>>) =>
            /\ ~fnOut.stats[1].raised
            /\ \A key \in DOMAIN LabelOf :
                  key \in DOMAIN fnOut.stats[1].stats
                      <=> Matches(LabelOf[key], fnIn.log_text)

\* ------------------------------------------------------------------------
\* C23: the log text of an answer is the whole log when lines = 0; when
\* lines = N > 0 it is made of the last min(N, number of lines) lines of
\* the log, in the order of the log, the last one without its line
\* terminator.
\* ------------------------------------------------------------------------
C23_TailLinesWindow ==
    \A q \in 1 .. Len(snaps) :
        LET text == snaps[q].file.text
            N    == snaps[q].lines
            out  == snaps[q].answer.log
            n    == Len(text)
            m    == IF N < n THEN N ELSE n
        IN  snaps[q].answer.code = 200 =>
                IF N = 0
                THEN out = text
                ELSE /\ Len(out) = m
                     /\ \A k \in 1 .. m :
                           /\ out[k].kind = text[n - m + k].kind
                           /\ out[k].len = text[n - m + k].len
                                             - (IF k = m THEN 1 ELSE 0)

C23_Witness ==
    \E q \in 1 .. Len(snaps) :
        /\ snaps[q].file.text = <<TextLine(1), OpenLine, FailedLine>>
        /\ snaps[q].lines = 2
        /\ snaps[q].answer.code = 200
        /\ snaps[q].answer.log = <<OpenLine, [kind |-> "FAILED", len |-> 8]>>

\* ------------------------------------------------------------------------
\* C26: a query leaves the log and every job as they are, and its answer
\* is computed from the content of the log at that moment and from lines
\* alone: with lines = 0 the text returned is the current log, appended
\* lines included, the status is the status of the current log, and two
\* queries with the same content and the same lines have the same answer.
\* ------------------------------------------------------------------------
C26_QueryReadOnlyAndFresh ==
    [][snaps' # snaps =>
          LET s == Last(snaps')
          IN  /\ logFile' = logFile
              /\ orchVars' = orchVars
              /\ ack' = ack
              /\ s.file = logFile
              /\ s.answer.code = 200 =>
                    /\ s.lines = 0 => s.answer.log = logFile.text
                    /\ s.answer.build_status = build_status(logFile.text)
              /\ \A p \in 1 .. Len(snaps) :
                    (snaps[p].file = s.file /\ snaps[p].lines = s.lines) =>
                        snaps[p].answer = s.answer]_vars

C26_Witness ==
    /\ Len(snaps) = 2
    /\ snaps[1].answer.code = 200
    /\ snaps[1].answer.log = <<TextLine(1)>>
    /\ snaps[1].answer.build_status = "in_progress"
    /\ snaps[2].answer.code = 200
    /\ snaps[2].answer.log = <<TextLine(1), OpenLine>>
    /\ snaps[2].answer.build_status = "complete"

\* ------------------------------------------------------------------------
\* C28: no exception leaves build_site_and_notify.
\* ------------------------------------------------------------------------
C28_NoExceptionEscapes ==
    \A j \in Jobs : pc[j] # "escaped"

\* ------------------------------------------------------------------------
\* C30: when a query has answered complete or failed and the log has only
\* grown since, no later query answers in_progress.
\* ------------------------------------------------------------------------
C30_StatusNeverRegresses ==
    \A p, q \in 1 .. Len(snaps) :
        (/\ p < q
         /\ snaps[p].answer.build_status \in {"complete", "failed"}
         /\ Len(snaps[p].file.text) <= Len(snaps[q].file.text)
         /\ SubSeq(snaps[q].file.text, 1, Len(snaps[p].file.text))
               = snaps[p].file.text) =>
            snaps[q].answer.build_status # "in_progress"


\* ------------------------------------------------------------------------
\* C27: for one request, the site_slug of the submit response, the slug
\* carried by the success payload (as site_slug, or inside site_url when a
\* base URL is configured) and the directory under sites/ whose build.log
\* the status query opens are all slug(business_name).
\* ------------------------------------------------------------------------
C27_OneIdentifierEverywhere ==
    fnIn.fn = "request" =>
        LET id == slug(fnIn.name)
        IN  /\ \A i \in 1 .. Len(fnOut.response) :
                  /\ fnOut.response[i].site_slug = id
                  /\ "site_url" \in DOMAIN fnOut.response[i] =>
                        fnOut.response[i].site_url =
                            SiteUrl(REMOTE_SITE_URL, id)
            /\ \A i \in 1 .. Len(fnOut.payload) :
                  IF "site_url" \in DOMAIN fnOut.payload[i]
                  THEN fnOut.payload[i].site_url = SiteUrl(REMOTE_SITE_URL, id)
                  ELSE fnOut.payload[i].site_slug = id
            /\ \A i \in 1 .. Len(fnOut.log_path) :
                  fnOut.log_path[i] = <<"sites", "/">> \o id \o <<"/", "build.log">>
                  \/ (id = <<>> /\ fnOut.log_path[i] = <<"sites", "/", "build.log">>)

C27_Witness ==
    /\ fnIn.fn = "request"
    /\ fnIn.name = <<"L", "'", " ">>
    /\ REMOTE_SITE_URL = <<>>
    /\ fnOut.response # <<>> /\ fnOut.response[1].site_slug = <<"l", "-">>
    /\ fnOut.payload # <<>> /\ fnOut.payload[1].site_slug = <<"l", "-">>
    /\ fnOut.log_path =
          <<(<<"sites", "/", "l", "-", "/", "build.log">>)>>


\* ------------------------------------------------------------------------
\* C24 (as stated): a request that was accepted and whose task has passed
\* create_subprocess_exec always has a process of its own (never zero),
\* and a task that is about to spawn is never held back by another job.
\* ------------------------------------------------------------------------
Attempted(j) == pc[j] \in {"waiting", "notify", "done", "escaped"}

SpawnFailed(j) ==
    /\ outcomes[j] # <<>>
    /\ outcomes[j][1] = ErrorPayload("spawn")

C24_EveryRequestHasItsProcess ==
    \A j \in PairJobs :
        /\ (pc[j] = "spawning" /\ scriptState = "ok") => ENABLED SpawnOk(j)
        /\ Attempted(j) => proc[j].leader # "none"

\* ------------------------------------------------------------------------
\* C24 (amended): every accepted request makes exactly one spawn attempt,
\* which no other job in flight can hold back or replace: the attempt
\* yields one process of the job's own, kept for the rest of the run, or
\* create_subprocess_exec raises, the job has no process and reports the
\* error; the attempt is never repeated.  Requests whose names give the
\* same slug run their processes side by side.
\* ------------------------------------------------------------------------
C24_OneSpawnAttemptPerRequest ==
    [][\A j \in PairJobs :
          /\ (pc[j] = "spawning" /\ scriptState = "ok") => ENABLED SpawnOk(j)
          /\ Attempted(j) => Attempted(j)'
          /\ (pc[j] = "spawning" /\ pc'[j] # "spawning") => Attempted(j)'
          /\ (proc[j].leader = "none" /\ proc'[j].leader # "none") =>
                pc[j] = "spawning"
          /\ proc[j].leader # "none" =>
                /\ proc'[j].leader # "none"
                /\ proc'[j].pid = proc[j].pid
          /\ Attempted(j)' =>
                (proc'[j].leader = "none" <=> SpawnFailed(j)')]_vars

C24_Witness ==
    /\ proc[1].leader = "alive"
    /\ proc[2].leader = "alive"
    /\ proc[1].pid # proc[2].pid
    /\ requests[1] = requests[2]
    /\ ack[1].site_slug = ack[2].site_slug

\* ------------------------------------------------------------------------
\* C25: a step of one job (its timeout, kill, failure or failed delivery)
\* never terminates a process of another job and never changes another
\* job's outcomes or the POSTs made for it.
\* ------------------------------------------------------------------------
C25_JobsIndependent ==
    [][\A j, k \in PairJobs :
          (j # k /\ (pc'[j] # pc[j] \/ kills'[j] # kills[j])) =>
              /\ proc'[k] = proc[k]
              /\ outcomes'[k] = outcomes[k]
              /\ posts'[k] = posts[k]]_vars

\* ------------------------------------------------------------------------
\* C29: every call of _kill_process_group that sends SIGKILL to a group
\* sends it to the group the job created, also when the call is made
\* after the child was reaped; it never reaches the group of another job
\* or of an unrelated process that was given the same pid.
\* ------------------------------------------------------------------------
C29_KillOnlyOwnGroup ==
    \A j \in PairJobs :
        \A i \in 1 .. Len(kills[j]) :
            kills[j][i].branch = "killed" => kills[j][i].os = "OK"


\* ------------------------------------------------------------------------
\* C31: whenever the last TailWindow characters of the log hold the
\* completion marker together with a failure marker ("❌ Failed" or
\* "exit 1"), before or after it, the query answers complete.
\* ------------------------------------------------------------------------
C31_CompletionBeatsFailure ==
    \A p \in 1 .. Len(snaps) :
        LET tail == last_chars(snaps[p].file.text, TailWindow)
        IN  (/\ snaps[p].answer.code = 200
             /\ Contains(tail, "OPEN")
             /\ Contains(tail, "FAILED") \/ Contains(tail, "EXIT1")) =>
                snaps[p].answer.build_status = "complete"

C31_Witness ==
    /\ Len(snaps) = 2
    /\ snaps[1].file.text = <<FailedLine, OpenLine>>
    /\ snaps[1].answer.build_status = "complete"
    /\ snaps[2].file.text = <<FailedLine, OpenLine, Exit1Line>>
    /\ snaps[2].answer.build_status = "complete"


\* ------------------------------------------------------------------------
\* C32: for one content of the log, two queries that differ in the lines
\* parameter get the same status code, the same build_status and the same
\* stats; only the log text they return may differ.
\* ------------------------------------------------------------------------
C32_LinesAffectsOnlyLogText ==
    \A p, q \in 1 .. Len(snaps) :
        snaps[p].file = snaps[q].file =>
            /\ snaps[p].answer.code = snaps[q].answer.code
            /\ snaps[p].answer.build_status = snaps[q].answer.build_status
            /\ snaps[p].answer.code = 200 =>
                  snaps[p].answer.stats = snaps[q].answer.stats

C32_Witness ==
    /\ Len(snaps) = 2
    /\ snaps[1].file.text = <<CostLine, FailedLine, TextLine(1)>>
    /\ snaps[2].file = snaps[1].file
    /\ snaps[1].lines = 0
    /\ snaps[2].lines = 2
    /\ snaps[1].answer.log # snaps[2].answer.log
    /\ snaps[2].answer.build_status = "failed"
    /\ DOMAIN snaps[2].answer.stats = {"estimated_cost_usd"}


\* ------------------------------------------------------------------------
\* C33: when validate_environment found a configuration error, the server
\* is up all the same and no POST /generate-site made afterwards is
\* accepted.
\* ------------------------------------------------------------------------
C33_StartupErrorsRejectRequests ==
    \A j \in StartJobs :
        (startup.done /\ startup.errors # <<>>) => http[j] # 200


\* ------------------------------------------------------------------------
\* C34: when step_wait_local has finished and the completion marker was
\* complete in the log before the deadline, the step has reported
\* completion, however the writes of create.sh fell between its reads.
\* ------------------------------------------------------------------------
C34_TailerSeesMarker ==
    (/\ waiter.pc = "finished"
     /\ waiter.markerAt # NotWritten
     /\ waiter.markerAt < BUILD_WAIT) => waiter.done


\* ------------------------------------------------------------------------
\* C35 (as stated): in auto mode OpenRouter is called first and Gemini only
\* after OpenRouter failed, no provider is called after a success, no
\* provider's error leaves it as an exception, and the program has exited
\* with status 1 exactly when every provider of the list was called and
\* failed.
\* ------------------------------------------------------------------------
ProviderOrder ==
    LET run  == fnOut.run
        list == provider_list(fnIn.provider)
    IN  /\ Len(run.calls) <= Len(list)
        /\ \A i \in 1 .. Len(run.calls) :
              /\ run.calls[i].provider = list[i]
              /\ ~run.calls[i].result.raised
              /\ i < Len(run.calls) => ~run.calls[i].result.success

AllProvidersFailed ==
    LET run == fnOut.run
    IN  /\ Len(run.calls) = Len(provider_list(fnIn.provider))
        /\ \A i \in 1 .. Len(run.calls) : ~run.calls[i].result.success

C35_ExitOneIffAllFailed ==
    fnIn.fn = "image" =>
        /\ ProviderOrder
        /\ fnOut.run.pc = "exited" =>
              (fnOut.run.status = 1 <=> AllProvidersFailed)

\* ------------------------------------------------------------------------
\* C35 (amended): the same order of calls; the program has exited with
\* status 1 exactly when every provider of the list was called and failed
\* or the output directory could not be created, in which case no
\* provider was called; otherwise it has exited with status 0 right after
\* the first success.
\* ------------------------------------------------------------------------
C35_FallbackOrderAndExit ==
    fnIn.fn = "image" =>
        /\ ProviderOrder
        /\ fnOut.run.pc = "exited" =>
              /\ fnOut.run.status \in {0, 1}
              /\ fnOut.run.status = 1 <=>
                    \/ AllProvidersFailed
                    \/ fnIn.makedirs = "raises" /\ fnOut.run.calls = <<>>
              /\ fnOut.run.status = 0 <=>
                    /\ fnOut.run.calls # <<>>
                    /\ Last(fnOut.run.calls).result.success

C35_Witness ==
    /\ fnIn.fn = "image"
    /\ fnIn.provider = "auto"
    /\ fnIn.reply.openrouter = "raises"
    /\ fnIn.has_key.openrouter
    /\ fnOut.run.pc = "exited"
    /\ fnOut.run.status = 0
    /\ Len(fnOut.run.calls) = 2
    /\ fnOut.run.calls[2].provider = "gemini"


\* ------------------------------------------------------------------------
\* C36: the request is answered 422 exactly when query is empty and
\* business_type and location are not both non-empty; otherwise the
\* effective query is "<business_type> <location>", each trimmed, when
\* both are non-empty (whether or not query is given), and the trimmed
\* query when they are not.
\* ------------------------------------------------------------------------
C36_ScrapeParameters ==
    (fnIn.fn = "scrape" /\ fnOut.scrape # <<>>) =>
        LET r    == fnOut.scrape[1]
            both == fnIn.business_type # <<>> /\ fnIn.location # <<>>
        IN  /\ r.code = 422 <=> (fnIn.query = <<>> /\ ~both)
            /\ r.code # 422 =>
                  /\ both => r.effective_query =
                                strip(fnIn.business_type) \o <<" ">>
                                \o strip(fnIn.location)
                  /\ ~both => r.effective_query = strip(fnIn.query)

C36_Witness ==
    /\ fnIn.fn = "scrape"
    /\ fnIn.query = <<"a", "a">>
    /\ fnIn.business_type = <<" ", "a">>
    /\ fnIn.location = <<"a", " ">>
    /\ fnOut.scrape = <<[code |-> 200, effective_query |-> <<"a", " ", "a">>]>>


\* ------------------------------------------------------------------------
\* C37: each setting of the harness is what its CLI argument says whenever
\* that argument is given, whatever the environment holds: --remote gives
\* remote mode, --base-url the base URL, --host (with --port) the base URL
\* http://<host>:<port> when --base-url is absent, --remote-url the site
\* URL, --build-wait the wait and --webhook-url the webhook.
\* ------------------------------------------------------------------------
C37_CliOverridesEnvironment ==
    (fnIn.fn = "config" /\ fnOut.config # <<>>) =>
        LET a == fnIn.args
            c == fnOut.config[1]
        IN  /\ a.remote.given => c.REMOTE = a.remote.value
            /\ a.base_url.given => c.BASE_URL = rstrip_slash(a.base_url.value)
            /\ (a.host.given /\ ~a.base_url.given) =>
                  SubSeq(c.BASE_URL, 1, 2) = <<"http://">> \o a.host.value
            /\ (a.host.given /\ a.port.given /\ ~a.base_url.given) =>
                  c.BASE_URL =
                      <<"http://">> \o a.host.value \o <<":">> \o a.port.value
            /\ a.remote_url.given =>
                  c.REMOTE_SITE_URL = rstrip_slash(a.remote_url.value)
            /\ a.build_wait.given => c.BUILD_WAIT = a.build_wait.value
            /\ a.webhook_url.given => c.WEBHOOK_URL = a.webhook_url.value

====
